---- MODULE Spec2Model ----
(***************************************************************************)
(* Rhyme Lab: the phonetic rhyme engine of src/main.js (RhymeAnalyzer),    *)
(* and the hip-hop engine of src/main-hiphop.js (EnhancedRhymeAnalyzer)    *)
(* with src/unnamed/part_001 (HipHopRhymeAnalyzer).                        *)
(*                                                                         *)
(* JavaScript strings are TLA+ strings, read character by character with   *)
(* SubSeq; JavaScript arrays are sequences.  Array indices keep their      *)
(* 0-based JavaScript values; a sequence is read at index + 1.             *)
(* Distances are exact rationals: nucleusDistance and codaDistance are in  *)
(* units of 1/1000, rhymeDistance and the thresholds in units of 1/10000.  *)
(***************************************************************************)
EXTENDS Integers, Sequences, FiniteSets, TLC

VARIABLES
    text,            \* the string handed to analyze / analyzeText
    settings,        \* this.settings of the analyzer
    pc,              \* position inside the running call
    words,           \* analyze: const words
    spans,           \* analyze: const spans
    groups,          \* analyze: const groups (each group: span indices)
    assonanceGroups, \* analyze: const assonanceGroups
    wordToGroup,     \* analyze: const wordToGroup
    internalRhymes,  \* analyze: const internalRhymes
    metrics,         \* analyze: the metrics record of the result
    outcome,         \* "running", "returned" or "threw"
    call,            \* arguments of a method invoked on its own
    ret,             \* what that method returned
    hiphop           \* analyzeText of the hip-hop engine: its locals

vars == <<text, settings, pc, words, spans, groups, assonanceGroups,
          wordToGroup, internalRhymes, metrics, outcome, call, ret, hiphop>>

(* Strings *)

BS == "\\"
NL == "\n"
NULL == -1

Min(a, b) == IF a <= b THEN a ELSE b
Max(a, b) == IF a >= b THEN a ELSE b

\* s[i] of JavaScript, "" standing for undefined
CharAt(s, i) == IF i >= 0 /\ i < Len(s) THEN SubSeq(s, i + 1, i + 1) ELSE ""

\* s.substr(i, n)
substr(s, i, n) ==
    IF i >= Len(s) \/ n <= 0 THEN "" ELSE SubSeq(s, i + 1, Min(i + n, Len(s)))

\* s.slice(i)
StrFrom(s, i) == IF i >= Len(s) THEN "" ELSE SubSeq(s, i + 1, Len(s))

UPPER == "ABCDEFGHIJKLMNOPQRSTUVWXYZ"
LOWER == "abcdefghijklmnopqrstuvwxyz"

IsLetter(c) == \E i \in 1..26 : SubSeq(UPPER, i, i) = c \/ SubSeq(LOWER, i, i) = c

lowerChar(c) ==
    IF \E i \in 1..26 : SubSeq(UPPER, i, i) = c
    THEN LET i == CHOOSE k \in 1..26 : SubSeq(UPPER, k, k) = c IN SubSeq(LOWER, i, i)
    ELSE c

RECURSIVE toLowerCase(_)
toLowerCase(s) ==
    IF Len(s) = 0 THEN "" ELSE lowerChar(CharAt(s, 0)) \o toLowerCase(StrFrom(s, 1))

IsSpace(c) == c \in {" ", NL, "\t", "\r"}

RECURSIVE trimStart(_)
trimStart(s) ==
    IF Len(s) > 0 /\ IsSpace(CharAt(s, 0)) THEN trimStart(StrFrom(s, 1)) ELSE s

RECURSIVE trimEnd(_)
trimEnd(s) ==
    IF Len(s) > 0 /\ IsSpace(CharAt(s, Len(s) - 1))
    THEN trimEnd(substr(s, 0, Len(s) - 1)) ELSE s

trim(s) == trimEnd(trimStart(s))

\* s.replace(/[^...]/g, '') : keep the characters of the class, drop the rest
RECURSIVE KeepChars(_, _)
KeepChars(s, keep) ==
    IF Len(s) = 0 THEN ""
    ELSE (IF CharAt(s, 0) \in keep THEN CharAt(s, 0) ELSE "")
         \o KeepChars(StrFrom(s, 1), keep)

\* s.replace(/<pat>/g, '') for a literal pattern, leftmost matches first
RECURSIVE RemoveAll(_, _)
RemoveAll(s, pat) ==
    IF Len(s) = 0 THEN ""
    ELSE IF substr(s, 0, Len(pat)) = pat THEN RemoveAll(StrFrom(s, Len(pat)), pat)
    ELSE CharAt(s, 0) \o RemoveAll(StrFrom(s, 1), pat)

\* s.endsWith(c) for one character
endsWith(s, c) == Len(s) > 0 /\ CharAt(s, Len(s) - 1) = c

\* s.split(sep) for a non-empty separator
RECURSIVE SplitLoop(_, _, _)
SplitLoop(s, sep, cur) ==
    IF Len(s) = 0 THEN <<cur>>
    ELSE IF substr(s, 0, Len(sep)) = sep
         THEN <<cur>> \o SplitLoop(StrFrom(s, Len(sep)), sep, "")
         ELSE SplitLoop(StrFrom(s, 1), sep, cur \o CharAt(s, 0))

split(s, sep) == SplitLoop(s, sep, "")

\* array.join(sep)
RECURSIVE join(_, _)
join(arr, sep) ==
    IF Len(arr) = 0 THEN ""
    ELSE IF Len(arr) = 1 THEN arr[1]
    ELSE arr[1] \o sep \o join(Tail(arr), sep)

Last(seq) == seq[Len(seq)]
Front(seq) == SubSeq(seq, 1, Len(seq) - 1)

(* Tables of main.js *)

ARPA_VOWELS ==
    {"AA", "AE", "AH", "AO", "AW", "AY", "EH", "ER", "EY", "IH", "IY", "OW",
     "OY", "UH", "UW"}

VOWEL_CLASSES ==
    [v \in ARPA_VOWELS |->
        CASE v = "IY" -> "EE"  [] v = "IH" -> "I"   [] v = "EH" -> "E"
          [] v = "AE" -> "A"   [] v = "AA" -> "AH"  [] v = "AH" -> "UH"
          [] v = "AO" -> "OR"  [] v = "OW" -> "O"   [] v = "UH" -> "U"
          [] v = "UW" -> "OO"  [] v = "EY" -> "AY"  [] v = "AY" -> "EYE"
          [] v = "OY" -> "OY"  [] v = "AW" -> "OW"  [] v = "ER" -> "ER"]

CONSONANT_PAIRS ==
    << <<"S", "Z">>, <<"F", "V">>, <<"T", "D">>, <<"K", "G">>, <<"P", "B">>,
       <<"SH", "ZH">>, <<"CH", "JH">>, <<"TH", "DH">>, <<"M", "N">> >>

STOP_WORDS ==
    {"the", "and", "a", "an", "in", "on", "of", "is", "to", "for", "with",
     "that", "this", "these", "those", "are", "be", "i", "you", "he", "she",
     "it", "we", "they", "at", "from", "as", "by", "or", "if", "then", "but",
     "my", "me", "your", "our", "their", "his", "her", "im", "i'm", "ya",
     "'em", "em", "ain't", "aint", "uh", "yeah"}

CUSTOM_ARPA ==
    [w \in {"ya", "yall", "y'all", "gon", "gonna", "wanna", "bru", "'em", "em",
            "lekker", "kak", "finna", "tryna", "boutta", "hella", "ayy",
            "bruh", "nah", "aight", "yo", "wassup", "whatchu", "cuz", "homie",
            "thru", "tho"} |->
        CASE w = "ya"      -> <<"Y", "AA1">>
          [] w = "yall"    -> <<"Y", "AO1", "L">>
          [] w = "y'all"   -> <<"Y", "AO1", "L">>
          [] w = "gon"     -> <<"G", "AA1", "N">>
          [] w = "gonna"   -> <<"G", "AH1", "N", "AH0">>
          [] w = "wanna"   -> <<"W", "AA1", "N", "AH0">>
          [] w = "bru"     -> <<"B", "R", "UW1">>
          [] w = "'em"     -> <<"AH0", "M">>
          [] w = "em"      -> <<"AH0", "M">>
          [] w = "lekker"  -> <<"L", "EH1", "K", "ER0">>
          [] w = "kak"     -> <<"K", "AA1", "K">>
          [] w = "finna"   -> <<"F", "IH1", "N", "AH0">>
          [] w = "tryna"   -> <<"T", "R", "AY1", "N", "AH0">>
          [] w = "boutta"  -> <<"B", "AW1", "T", "AH0">>
          [] w = "hella"   -> <<"HH", "EH1", "L", "AH0">>
          [] w = "ayy"     -> <<"EY1">>
          [] w = "bruh"    -> <<"B", "R", "AH1">>
          [] w = "nah"     -> <<"N", "AA1">>
          [] w = "aight"   -> <<"AY1", "T">>
          [] w = "yo"      -> <<"Y", "OW1">>
          [] w = "wassup"  -> <<"W", "AH1", "S", "AH0", "P">>
          [] w = "whatchu" -> <<"W", "AH1", "CH", "UW0">>
          [] w = "cuz"     -> <<"K", "AH1", "Z">>
          [] w = "homie"   -> <<"HH", "OW1", "M", "IY0">>
          [] w = "thru"    -> <<"TH", "R", "UW1">>
          [] w = "tho"     -> <<"DH", "OW1">>]

\* Property names every object literal inherits from Object.prototype:
\* CUSTOM_ARPA[name] is then a function or an object, truthy and not iterable.
OBJECT_PROTOTYPE_KEYS ==
    {"constructor", "toString", "valueOf", "hasOwnProperty", "isPrototypeOf",
     "propertyIsEnumerable", "toLocaleString", "__proto__",
     "__defineGetter__", "__defineSetter__", "__lookupGetter__",
     "__lookupSetter__"}

VOWEL_PATTERNS ==
    << <<"eigh", "EY">>, <<"ough", "AO">>, <<"augh", "AO">>, <<"eau", "OW">>,
       <<"igh", "AY">>, <<"oi", "OY">>, <<"oy", "OY">>, <<"ow", "AW">>,
       <<"ou", "AW">>, <<"ai", "EY">>, <<"ay", "EY">>, <<"ey", "EY">>,
       <<"ea", "IY">>, <<"ee", "IY">>, <<"ie", "IY">>, <<"oa", "OW">>,
       <<"oo", "UW">>, <<"eu", "UW">>, <<"au", "AO">>, <<"aw", "AO">>,
       <<"ur", "ER">>, <<"ir", "ER">>, <<"er", "ER">>, <<"ar", "AA">>,
       <<"or", "AO">> >>

\* Object.entries(CONSONANT_DIGRAPHS), in insertion order
CONSONANT_DIGRAPHS ==
    << <<"ch", "CH">>, <<"sh", "SH">>, <<"th", "TH">>, <<"ph", "F">>,
       <<"wh", "W">>, <<"gh", "G">>, <<"ng", "NG">>, <<"qu", "KW">>,
       <<"ck", "K">>, <<"kn", "N">>, <<"wr", "R">>, <<"ps", "S">> >>

SIMPLE_VOWELS ==
    [c \in {"a", "e", "i", "o", "u", "y"} |->
        CASE c = "a" -> "AE" [] c = "e" -> "EH" [] c = "i" -> "IH"
          [] c = "o" -> "AO" [] c = "u" -> "AH" [] c = "y" -> "IH"]

CONSONANT_MAP ==
    [c \in {"b", "c", "d", "f", "g", "h", "j", "k", "l", "m", "n", "p", "q",
            "r", "s", "t", "v", "w", "x", "z"} |->
        CASE c = "b" -> "B"  [] c = "c" -> "K"  [] c = "d" -> "D"
          [] c = "f" -> "F"  [] c = "g" -> "G"  [] c = "h" -> "HH"
          [] c = "j" -> "JH" [] c = "k" -> "K"  [] c = "l" -> "L"
          [] c = "m" -> "M"  [] c = "n" -> "N"  [] c = "p" -> "P"
          [] c = "q" -> "K"  [] c = "r" -> "R"  [] c = "s" -> "S"
          [] c = "t" -> "T"  [] c = "v" -> "V"  [] c = "w" -> "W"
          [] c = "x" -> "K"  [] c = "z" -> "Z"]

(* RhymeAnalyzer: word to phonemes *)

\* /[^\\w']/ is the class "anything but a backslash, the letter w and an
\* apostrophe": those three characters are what replace() leaves in place.
CLEAN_KEEP == {BS, "w", "'"}

\* the cleaning with the class of word characters and the apostrophe
cleanWordOfWordChars(word) ==
    trim(KeepChars(toLowerCase(word), {SubSeq(LOWER, i, i) : i \in 1..26} \cup {"'"}))

cleanWord(word) == trim(KeepChars(toLowerCase(word), CLEAN_KEEP))

\* /\\d/ matches a backslash followed by the letter d.
normalizePhone(phone) == RemoveAll(phone, BS \o "d")

\* index (1-based) of the first table row whose spelling starts at w[i], or 0
FirstRow(table, w, i) ==
    LET hits == {r \in 1..Len(table) : substr(w, i, Len(table[r][1])) = table[r][1]}
    IN IF hits = {} THEN 0 ELSE CHOOSE r \in hits : \A q \in hits : r <= q

RECURSIVE g2pScan(_, _, _, _)
g2pScan(w, i, phones, stressed) ==
    IF i >= Len(w) THEN phones
    ELSE LET vp == FirstRow(VOWEL_PATTERNS, w, i)
             cd == FirstRow(CONSONANT_DIGRAPHS, w, i)
             ch == CharAt(w, i)
             stress == IF ~stressed THEN "1" ELSE "0"
         IN IF vp # 0
            THEN g2pScan(w, i + Len(VOWEL_PATTERNS[vp][1]),
                         Append(phones, VOWEL_PATTERNS[vp][2] \o stress), TRUE)
            ELSE IF cd # 0
            THEN g2pScan(w, i + Len(CONSONANT_DIGRAPHS[cd][1]),
                         Append(phones, CONSONANT_DIGRAPHS[cd][2]), stressed)
            ELSE IF ch \in {"a", "e", "i", "o", "u", "y"}
            THEN g2pScan(w, i + 1, Append(phones, SIMPLE_VOWELS[ch] \o stress), TRUE)
            ELSE IF ch \in DOMAIN CONSONANT_MAP
            THEN g2pScan(w, i + 1, Append(phones, CONSONANT_MAP[ch]), stressed)
            ELSE g2pScan(w, i + 1, phones, stressed)

RECURSIVE g2pCollapse(_, _)
g2pCollapse(filtered, result) ==
    IF Len(filtered) = 0 THEN result
    ELSE LET phone == Head(filtered)
         IN g2pCollapse(Tail(filtered),
                IF Len(result) = 0 \/ Last(result) # phone
                   \/ normalizePhone(phone) \in ARPA_VOWELS
                THEN Append(result, phone) ELSE result)

g2pHeuristic(word) == g2pCollapse(g2pScan(toLowerCase(word), 0, <<>>, FALSE), <<>>)

\* [...CUSTOM_ARPA[cleaned]] raises a TypeError when the value is not iterable
wordToPhonesThrows(word) ==
    LET cleaned == cleanWord(word)
    IN cleaned \notin DOMAIN CUSTOM_ARPA /\ cleaned \in OBJECT_PROTOTYPE_KEYS

wordToPhones(word) ==
    LET cleaned == cleanWord(word)
    IN IF cleaned \in DOMAIN CUSTOM_ARPA THEN CUSTOM_ARPA[cleaned]
       ELSE g2pHeuristic(cleaned)

(* RhymeAnalyzer: syllables *)

RECURSIVE syllabifyLoop(_, _, _, _)
syllabifyLoop(phones, syllables, current, stressIndex) ==
    IF Len(phones) = 0
    THEN LET all == IF Len(current) > 0 THEN Append(syllables, current) ELSE syllables
         IN [syllables |-> all,
             stress |-> IF stressIndex = NULL /\ Len(all) > 0
                        THEN Len(all) - 1 ELSE stressIndex]
    ELSE LET phone == Head(phones)
             base == normalizePhone(phone)
         IN IF base \in ARPA_VOWELS
            THEN LET pushed == IF Len(current) > 0
                               THEN Append(syllables, current) ELSE syllables
                 IN syllabifyLoop(Tail(phones), pushed, <<phone>>,
                        IF endsWith(phone, "1") THEN Len(pushed) ELSE stressIndex)
            ELSE syllabifyLoop(Tail(phones), syllables, Append(current, phone),
                               stressIndex)

syllabify(phones) == syllabifyLoop(phones, <<>>, <<>>, NULL)

(* RhymeAnalyzer: rhyme keys *)

\* a coda consonant folded to its voiceless counterpart
fold(c) ==
    CASE c = "Z" -> "S"   [] c = "V" -> "F"   [] c = "D" -> "T"
      [] c = "G" -> "K"   [] c = "B" -> "P"   [] c = "ZH" -> "SH"
      [] c = "JH" -> "CH" [] c = "DH" -> "TH" [] OTHER -> c

normalizeCoda(coda) ==
    LET result == [k \in 1..Len(coda) |-> fold(normalizePhone(coda[k]))]
    IN IF Len(result) > 0 /\ Last(result) = "HH" THEN Front(result) ELSE result

getVowelFamily(vowel) ==
    CASE vowel \in {"EE", "I", "E"}          -> 0
      [] vowel \in {"A", "AH", "ER", "UH"}   -> 1
      [] vowel \in {"O", "OR", "OO", "U"}    -> 2
      [] vowel \in {"EYE", "OW", "OY", "AY"} -> 3
      [] OTHER -> 9

\* A nucleus that is null in the code is "" here: no label is the empty
\* string, and the code only tests it for null or for truthiness.
RECURSIVE extractNucleusAndCoda(_, _, _)
extractNucleusAndCoda(syllable, nucleus, coda) ==
    IF Len(syllable) = 0 THEN [nucleus |-> nucleus, coda |-> coda]
    ELSE LET base == normalizePhone(Head(syllable))
         IN IF base \in ARPA_VOWELS
            THEN extractNucleusAndCoda(Tail(syllable), VOWEL_CLASSES[base], coda)
            ELSE IF nucleus # ""
            THEN extractNucleusAndCoda(Tail(syllable), nucleus, Append(coda, base))
            ELSE extractNucleusAndCoda(Tail(syllable), nucleus, coda)

weakCodeas == {<<"S">>, <<"Z">>, <<"R">>, <<"L">>, <<"T">>, <<"D">>, <<"N">>, <<"M">>}

\* only the empty coda taken as weak
isWeakCodaEmpty(coda) == Len(coda) = 0

isWeakCoda(coda) == Len(coda) <= 1 \/ coda \in weakCodeas

\* A key is [ok, n, c]; the null key has ok = FALSE.
NoKey == [ok |-> FALSE, n |-> "", c |-> <<>>]

\* a key also for a syllable without a nucleus
getRhymeKeyOfAny(syllables, stressIndex) ==
    IF Len(syllables) = 0 THEN NoKey
    ELSE LET cur == extractNucleusAndCoda(Last(syllables), "", <<>>)
         IN [ok |-> TRUE, n |-> cur.nucleus, c |-> normalizeCoda(cur.coda)]

getRhymeKey(syllables, stressIndex) ==
    IF Len(syllables) = 0 THEN NoKey
    ELSE LET index == IF stressIndex # NULL THEN stressIndex ELSE Len(syllables) - 1
             clampedIndex == Max(0, Min(index, Len(syllables) - 1))
             cur == extractNucleusAndCoda(syllables[clampedIndex + 1], "", <<>>)
             absorb == isWeakCoda(cur.coda) /\ clampedIndex > 0
             prev == IF absorb
                     THEN extractNucleusAndCoda(syllables[clampedIndex], "", <<>>)
                     ELSE cur
             finalNucleus == IF absorb /\ prev.nucleus # ""
                             THEN prev.nucleus \o "+" \o cur.nucleus
                             ELSE cur.nucleus
             finalCoda == IF absorb THEN prev.coda \o cur.coda ELSE cur.coda
         IN IF finalNucleus # ""
            THEN [ok |-> TRUE, n |-> finalNucleus, c |-> normalizeCoda(finalCoda)]
            ELSE NoKey

\* keyParts of the last `tail` syllables
RECURSIVE keyPartsOf(_)
keyPartsOf(phones) ==
    IF Len(phones) = 0 THEN <<>>
    ELSE LET base == normalizePhone(Head(phones))
         IN <<IF base \in ARPA_VOWELS THEN VOWEL_CLASSES[base] ELSE base>>
            \o keyPartsOf(Tail(phones))

RECURSIVE flatten(_)
flatten(seqs) == IF Len(seqs) = 0 THEN <<>> ELSE Head(seqs) \o flatten(Tail(seqs))

\* null is "" here: a joined key of at least one part is never empty
getMultisyllabicKey(syllables, tail) ==
    IF Len(syllables) = 0 \/ tail <= 0 THEN ""
    ELSE LET actualTail == Min(tail, Len(syllables))
             keyParts == keyPartsOf(flatten(SubSeq(syllables,
                             Len(syllables) - actualTail + 1, Len(syllables))))
         IN IF Len(keyParts) > 0 THEN join(keyParts, "-") ELSE ""

(* RhymeAnalyzer: distances *)

\* the first element of a compound label instead of its last
firstVowel(n) == Head(split(n, "+"))

\* n.split("+").pop() || n
lastVowel(n) ==
    LET popped == Last(split(n, "+")) IN IF popped # "" THEN popped ELSE n

\* in units of 1/1000
nucleusDistance(n1, n2) ==
    IF n1 = n2 THEN 0
    ELSE LET a == lastVowel(n1)
             b == lastVowel(n2)
         IN IF a = b THEN 50
            ELSE IF getVowelFamily(a) = getVowelFamily(b) THEN 250
            ELSE 600

\* this.consonantEquivalence.get(a)?.has(b) ?? false
consonantEquivalence(a, b) ==
    \E k \in 1..Len(CONSONANT_PAIRS) :
        CONSONANT_PAIRS[k] = <<a, b>> \/ CONSONANT_PAIRS[k] = <<b, a>>

Abs(x) == IF x < 0 THEN -x ELSE x

\* the length penalty counted on one side only
codaDistanceOneSided(c1, c2) ==
    IF c1 = c2 THEN 0
    ELSE IF Len(c1) = 0 \/ Len(c2) = 0 THEN 600
    ELSE LET minLength == Min(Len(c1), Len(c2))
             mismatches == Cardinality({i \in 0..(minLength - 1) :
                              LET a == c1[Len(c1) - i]
                                  b == c2[Len(c2) - i]
                              IN ~(a = b \/ consonantEquivalence(a, b))})
         IN Min(1000, 350 * mismatches + 175 * Max(0, Len(c1) - Len(c2)))

\* in units of 1/1000: mismatches * 0.35 is 350 per mismatch and 175 per
\* unit of length difference
codaDistance(c1, c2) ==
    IF c1 = c2 THEN 0
    ELSE IF Len(c1) = 0 \/ Len(c2) = 0 THEN 600
    ELSE LET minLength == Min(Len(c1), Len(c2))
             mismatches == Cardinality({i \in 0..(minLength - 1) :
                              LET a == c1[Len(c1) - i]
                                  b == c2[Len(c2) - i]
                              IN ~(a = b \/ consonantEquivalence(a, b))})
         IN Min(1000, 350 * mismatches + 175 * Abs(Len(c1) - Len(c2)))

\* the two distances added without their weights
rhymeDistanceUnweighted(k1, k2) ==
    10 * nucleusDistance(k1.n, k2.n) + 10 * codaDistance(k1.c, k2.c)

\* in units of 1/10000
rhymeDistance(k1, k2) == 7 * nucleusDistance(k1.n, k2.n) + 3 * codaDistance(k1.c, k2.c)

\* the class label of the first vowel of the stressed syllable, "" for null
RECURSIVE firstVowelClass(_)
firstVowelClass(syllable) ==
    IF Len(syllable) = 0 THEN ""
    ELSE LET base == normalizePhone(Head(syllable))
         IN IF base \in ARPA_VOWELS THEN VOWEL_CLASSES[base]
            ELSE firstVowelClass(Tail(syllable))

getStressedVowel(word) ==
    LET stressIndex == IF word.stress # NULL THEN word.stress
                       ELSE Len(word.syllables) - 1
    IN IF stressIndex >= 0 /\ stressIndex < Len(word.syllables)
       THEN firstVowelClass(word.syllables[stressIndex + 1]) ELSE ""

detectAssonance(w1, w2) ==
    IF Len(w1.syllables) = 0 \/ Len(w2.syllables) = 0 THEN FALSE
    ELSE LET v1 == getStressedVowel(w1)
             v2 == getStressedVowel(w2)
         IN v1 # "" /\ v2 # "" /\ (v1 = v2 \/ getVowelFamily(v1) = getVowelFamily(v2))

\* the first later word decides: another line, or the same line
isLineEnd(wordIndex, wds) ==
    wordIndex + 1 >= Len(wds) \/ wds[wordIndex + 2].line # wds[wordIndex + 1].line

(* RhymeAnalyzer.analyze: the passes *)

IsWordChar(c) == IsLetter(c) \/ c = "'"

\* Array.from(line.matchAll(/[A-Za-z']+/g)): the maximal runs, as
\* [text, index]; cur is the run being read and start its index
RECURSIVE matchAll(_, _, _, _)
matchAll(line, i, cur, start) ==
    IF i >= Len(line)
    THEN IF cur # "" THEN << [text |-> cur, index |-> start] >> ELSE <<>>
    ELSE IF IsWordChar(CharAt(line, i))
    THEN matchAll(line, i + 1, cur \o CharAt(line, i), IF cur = "" THEN i ELSE start)
    ELSE (IF cur # "" THEN << [text |-> cur, index |-> start] >> ELSE <<>>)
         \o matchAll(line, i + 1, "", 0)

\* the separator of text.split('\\n'): a backslash followed by the letter n
LINE_SEPARATOR == BS \o "n"

skipWord(cleaned) == cleaned \in STOP_WORDS /\ Len(cleaned) <= 2

makeWord(lineIndex, match) ==
    LET cleaned == cleanWord(match.text)
        phones == wordToPhones(cleaned)
        syl == syllabify(phones)
    IN [line |-> lineIndex, text |-> match.text, lower |-> cleaned,
        phones |-> phones, syllables |-> syl.syllables, stress |-> syl.stress,
        position |-> match.index]

RECURSIVE wordsOfLine(_, _)
wordsOfLine(lineIndex, matches) ==
    IF Len(matches) = 0 THEN <<>>
    ELSE (IF skipWord(cleanWord(Head(matches).text)) THEN <<>>
          ELSE << makeWord(lineIndex, Head(matches)) >>)
         \o wordsOfLine(lineIndex, Tail(matches))

RECURSIVE wordsOfLines(_, _)
wordsOfLines(lines, lineIndex) ==
    IF lineIndex >= Len(lines) THEN <<>>
    ELSE wordsOfLine(lineIndex, matchAll(lines[lineIndex + 1], 0, "", 0))
         \o wordsOfLines(lines, lineIndex + 1)

\* the words array kept from the call before and appended to
extractWordsKeeping(txt) ==
    (IF "words" \in DOMAIN ret THEN ret.words ELSE <<>>)
        \o wordsOfLines(split(txt, LINE_SEPARATOR), 0)

extractWords(txt) == wordsOfLines(split(txt, LINE_SEPARATOR), 0)

\* some token that is not skipped makes wordToPhones raise
extractWordsThrows(txt) ==
    LET lines == split(txt, LINE_SEPARATOR)
    IN \E l \in 1..Len(lines) :
         LET matches == matchAll(lines[l], 0, "", 0)
         IN \E m \in 1..Len(matches) :
              /\ ~skipWord(cleanWord(matches[m].text))
              /\ wordToPhonesThrows(cleanWord(matches[m].text))

\* multiKeys[t] for t = 2, 3, "" where the code sets none
multiKeysOf(syllables) ==
    [t \in {2, 3} |->
        IF t < Min(4, Len(syllables) + 1) THEN getMultisyllabicKey(syllables, t)
        ELSE ""]

\* the span with its tail counted from the syllable before the stressed one
makeSpanLong(wds, i) ==
    LET word == wds[i + 1]
        stressIndex == IF word.stress # NULL THEN word.stress
                       ELSE Len(word.syllables) - 1
    IN [wordIndex |-> i, line |-> word.line,
        key |-> getRhymeKey(word.syllables, word.stress),
        tail |-> Max(1, Len(word.syllables) - stressIndex + 1),
        multiKeys |-> multiKeysOf(word.syllables)]

makeSpan(wds, i) ==
    LET word == wds[i + 1]
        stressIndex == IF word.stress # NULL THEN word.stress
                       ELSE Len(word.syllables) - 1
    IN [wordIndex |-> i, line |-> word.line,
        key |-> getRhymeKey(word.syllables, word.stress),
        tail |-> Max(1, Len(word.syllables) - stressIndex),
        multiKeys |-> multiKeysOf(word.syllables)]

RECURSIVE buildSpans(_, _)
buildSpans(wds, i) ==
    IF i >= Len(wds) THEN <<>>
    ELSE (IF getRhymeKey(wds[i + 1].syllables, wds[i + 1].stress).ok
          THEN << makeSpan(wds, i) >> ELSE <<>>)
         \o buildSpans(wds, i + 1)

\* no word taken for a repetition
sameWordNever(wds, sps, i, j) == FALSE

\* "Skip identical words": the seed i against the candidate j
sameWord(wds, sps, i, j) ==
    wds[sps[i + 1].wordIndex + 1].lower = wds[sps[j + 1].wordIndex + 1].lower

\* for (const tail of [3, 2]) ...
multiMatch(sps, i, j) ==
    \E tail \in {3, 2} :
        /\ sps[i + 1].multiKeys[tail] # ""
        /\ sps[j + 1].multiKeys[tail] # ""
        /\ sps[i + 1].multiKeys[tail] = sps[j + 1].multiKeys[tail]

\* the lenient threshold whatever the positions
thresholdAlwaysSlant(wds, sps, st, i, j) == 2 * st.slantThreshold

\* twice the threshold of the pair, so that the midpoint stays an integer
thresholdTimes2(wds, sps, st, i, j) ==
    LET isLineEndI == isLineEnd(sps[i + 1].wordIndex, wds)
        isLineEndJ == isLineEnd(sps[j + 1].wordIndex, wds)
    IN IF isLineEndI /\ isLineEndJ THEN 2 * st.perfectThreshold
       ELSE IF isLineEndI \/ isLineEndJ THEN st.perfectThreshold + st.slantThreshold
       ELSE 2 * st.slantThreshold

\* the comparison turned around
withinThresholdFlipped(wds, sps, st, i, j) ==
    2 * rhymeDistance(sps[i + 1].key, sps[j + 1].key) >= thresholdTimes2(wds, sps, st, i, j)

withinThreshold(wds, sps, st, i, j) ==
    2 * rhymeDistance(sps[i + 1].key, sps[j + 1].key) <= thresholdTimes2(wds, sps, st, i, j)

\* the used flags ignored
skipUsedNever(used, j) == FALSE

\* if (used[j]) continue
skipUsed(used, j) == used[j + 1]

\* the new member put in front
unshiftMember(groupIndices, j) == <<j>> \o groupIndices

\* groupIndices.push(j)
pushMember(groupIndices, j) == Append(groupIndices, j)

\* the inner loop over j: the members of seed i's group and the used flags
RECURSIVE joinSeed(_, _, _, _, _, _, _)
joinSeed(wds, sps, st, i, j, groupIndices, used) ==
    IF j >= Len(sps) THEN [groupIndices |-> groupIndices, used |-> used]
    ELSE IF skipUsed(used, j) \/ sameWord(wds, sps, i, j)
    THEN joinSeed(wds, sps, st, i, j + 1, groupIndices, used)
    ELSE IF multiMatch(sps, i, j) \/ withinThreshold(wds, sps, st, i, j)
    THEN joinSeed(wds, sps, st, i, j + 1, pushMember(groupIndices, j),
                  [used EXCEPT ![j + 1] = TRUE])
    ELSE joinSeed(wds, sps, st, i, j + 1, groupIndices, used)

\* a lone seed kept as a group
keepRhymeGroupOfOne(groupIndices) == Len(groupIndices) >= 1

\* "Only create groups with multiple members"
keepRhymeGroup(groupIndices) == Len(groupIndices) >= 2

\* the outer loop over i; a group is the list of its span indices
RECURSIVE groupRhymes(_, _, _, _, _)
groupRhymes(wds, sps, st, i, used) ==
    IF i >= Len(sps) THEN <<>>
    ELSE IF skipUsed(used, i) THEN groupRhymes(wds, sps, st, i + 1, used)
    ELSE LET r == joinSeed(wds, sps, st, i, i + 1, <<i>>, [used EXCEPT ![i + 1] = TRUE])
         IN (IF keepRhymeGroup(r.groupIndices) THEN << r.groupIndices >> ELSE <<>>)
            \o groupRhymes(wds, sps, st, i + 1, r.used)

rhymeGroups(wds, sps, st) ==
    groupRhymes(wds, sps, st, 0, [k \in 1..Len(sps) |-> FALSE])

\* the stop-word test of the extraction pass, which lets long words through
isStopWordShort(lower) == lower \in STOP_WORDS /\ Len(lower) <= 2

\* STOP_WORDS.has(words[i].lower)
isStopWord(lower) == lower \in STOP_WORDS

RECURSIVE joinAssonance(_, _, _, _, _)
joinAssonance(wds, i, j, group, assonanceUsed) ==
    IF j >= Len(wds) THEN [group |-> group, used |-> assonanceUsed]
    ELSE IF assonanceUsed[j + 1] \/ isStopWord(wds[j + 1].lower)
            \/ wds[j + 1].lower = wds[i + 1].lower
    THEN joinAssonance(wds, i, j + 1, group, assonanceUsed)
    ELSE IF detectAssonance(wds[i + 1], wds[j + 1])
    THEN joinAssonance(wds, i, j + 1, Append(group, j),
                       [assonanceUsed EXCEPT ![j + 1] = TRUE])
    ELSE joinAssonance(wds, i, j + 1, group, assonanceUsed)

\* "Require at least 3 words for a meaningful assonance group"
keepAssonanceGroup(group) == Len(group) >= 3

RECURSIVE groupAssonance(_, _, _)
groupAssonance(wds, i, assonanceUsed) ==
    IF i >= Len(wds) THEN <<>>
    ELSE IF assonanceUsed[i + 1] \/ isStopWord(wds[i + 1].lower)
    THEN groupAssonance(wds, i + 1, assonanceUsed)
    ELSE LET r == joinAssonance(wds, i, i + 1, <<i>>,
                                [assonanceUsed EXCEPT ![i + 1] = TRUE])
         IN (IF keepAssonanceGroup(r.group) THEN << r.group >> ELSE <<>>)
            \o groupAssonance(wds, i + 1, r.used)

assonancePass(wds, st) ==
    IF st.highlightAssonance
    THEN groupAssonance(wds, 0, [k \in 1..Len(wds) |-> FALSE])
    ELSE <<>>

\* the entries [groupId, tail, type] that the rhyme groups give word w
RECURSIVE rhymeEntries(_, _, _, _)
rhymeEntries(sps, grps, groupId, w) ==
    IF groupId >= Len(grps) THEN <<>>
    ELSE LET members == grps[groupId + 1]
             hits == SelectSeq(members, LAMBDA idx : sps[idx + 1].wordIndex = w)
         IN [k \in 1..Len(hits) |-> <<groupId, sps[hits[k] + 1].tail, "rhyme">>]
            \o rhymeEntries(sps, grps, groupId + 1, w)

RECURSIVE assonanceEntries(_, _, _, _)
assonanceEntries(agrps, nGroups, assonanceId, w) ==
    IF assonanceId >= Len(agrps) THEN <<>>
    ELSE LET hits == SelectSeq(agrps[assonanceId + 1], LAMBDA wordIndex : wordIndex = w)
         IN [k \in 1..Len(hits) |-> <<nGroups + assonanceId, 1, "assonance">>]
            \o assonanceEntries(agrps, nGroups, assonanceId + 1, w)

\* wordToGroup[w], <<>> for a word that has no property in the object
buildWordToGroup(wds, sps, grps, agrps) ==
    [w \in 0..(Len(wds) - 1) |->
        rhymeEntries(sps, grps, 0, w) \o assonanceEntries(agrps, Len(grps), 0, w)]

\* the maximum taken without its floor of -1: line 0 when there is no word
maxLineOfNoFloor(wds) ==
    IF Len(wds) = 0 THEN 0
    ELSE CHOOSE m \in {wds[k].line : k \in 1..Len(wds)} :
            \A k \in 1..Len(wds) : wds[k].line <= m

\* Math.max(...words.map(w => w.line), -1)
maxLineOf(wds) ==
    IF Len(wds) = 0 THEN -1
    ELSE CHOOSE m \in {wds[k].line : k \in 1..Len(wds)} :
            \A k \in 1..Len(wds) : wds[k].line <= m

\* the pair test with the threshold of perfect rhymes
internalPairPerfect(wds, st, wi1, wi2) ==
    LET w1 == wds[wi1 + 1]
        w2 == wds[wi2 + 1]
        k1 == getRhymeKey(w1.syllables, w1.stress)
        k2 == getRhymeKey(w2.syllables, w2.stress)
    IN /\ w1.lower # w2.lower
       /\ k1.ok /\ k2.ok
       /\ rhymeDistance(k1, k2) <= st.perfectThreshold

internalPair(wds, st, wi1, wi2) ==
    LET w1 == wds[wi1 + 1]
        w2 == wds[wi2 + 1]
        k1 == getRhymeKey(w1.syllables, w1.stress)
        k2 == getRhymeKey(w2.syllables, w2.stress)
    IN /\ w1.lower # w2.lower
       /\ k1.ok /\ k2.ok
       /\ rhymeDistance(k1, k2) <= st.slantThreshold

\* the pairs of one line, in the order of the two nested loops
RECURSIVE pairsFrom(_, _, _, _, _)
pairsFrom(wds, st, lineWords, i, j) ==
    IF i >= Len(lineWords) THEN <<>>
    ELSE IF j >= Len(lineWords) THEN pairsFrom(wds, st, lineWords, i + 1, i + 2)
    ELSE (IF internalPair(wds, st, lineWords[i + 1], lineWords[j + 1])
          THEN << <<lineWords[i + 1], lineWords[j + 1]>> >> ELSE <<>>)
         \o pairsFrom(wds, st, lineWords, i, j + 1)

RECURSIVE indicesOnLine(_, _, _)
indicesOnLine(wds, lineIndex, i) ==
    IF i >= Len(wds) THEN <<>>
    ELSE (IF wds[i + 1].line = lineIndex THEN <<i>> ELSE <<>>)
         \o indicesOnLine(wds, lineIndex, i + 1)

linePairs(wds, st, lineIndex) ==
    pairsFrom(wds, st, indicesOnLine(wds, lineIndex, 0), 0, 1)

\* internalRhymes: its keys are the lines that have a pair
internalPass(wds, st) ==
    IF st.showInternalRhymes
    THEN [l \in {l \in 0..maxLineOf(wds) : Len(linePairs(wds, st, l)) > 0} |->
             linePairs(wds, st, l)]
    ELSE [l \in {} |-> <<>>]

\* String.fromCharCode(65 + k)
letterOf(k) == CharAt(UPPER, k)

\* lastWordIndex of a line, NULL when the line has no word
lastWordOnLine(wds, line) ==
    LET on == {i \in 0..(Len(wds) - 1) : wds[i + 1].line = line}
    IN IF on = {} THEN NULL ELSE CHOOSE i \in on : \A k \in on : k <= i

\* the loop of buildScheme; seen lists the group ids in order of first use
RECURSIVE schemeLoop(_, _, _, _, _)
schemeLoop(wds, w2g, line, maxLine, seen) ==
    IF line > maxLine THEN ""
    ELSE LET lastWordIndex == lastWordOnLine(wds, line)
             entries == IF lastWordIndex = NULL THEN <<>> ELSE w2g[lastWordIndex]
         IN IF Len(entries) = 0
            THEN "-" \o schemeLoop(wds, w2g, line + 1, maxLine, seen)
            ELSE LET groupId == entries[1][1]
                     seen2 == IF \E k \in 1..Len(seen) : seen[k] = groupId
                              THEN seen ELSE Append(seen, groupId)
                     pos == CHOOSE k \in 1..Len(seen2) : seen2[k] = groupId
                 IN letterOf(pos - 1)
                    \o schemeLoop(wds, w2g, line + 1, maxLine, seen2)

buildScheme(wds, w2g) == schemeLoop(wds, w2g, 0, maxLineOf(wds), <<>>)

RECURSIVE sumSeq(_)
sumSeq(q) == IF Len(q) = 0 THEN 0 ELSE Head(q) + sumSeq(Tail(q))

\* Math.max(...entries.map(([_, tail]) => tail), floor)
maxTailOf(entries, floor) ==
    LET tails == {entries[k][2] : k \in 1..Len(entries)} \cup {floor}
    IN CHOOSE m \in tails : \A t \in tails : t <= m

\* the metrics record; a quotient is kept as [num, den], 0 being [0, 1]
buildMetrics(wds, grps, agrps, w2g) ==
    LET n == Len(wds)
        totalSyllables == sumSeq([k \in 1..n |-> Len(wds[k].syllables)])
        rhymingSyllables == sumSeq([k \in 1..n |-> maxTailOf(w2g[k - 1], 0)])
        multiSyllables ==
            sumSeq([k \in 1..n |->
                sumSeq([e \in 1..Len(w2g[k - 1]) |->
                    IF w2g[k - 1][e][2] >= 2 THEN w2g[k - 1][e][2] ELSE 0])])
        grouped == {i \in 0..(n - 1) : Len(w2g[i]) > 0}
        rhymeLines == {wds[i + 1].line : i \in grouped}
        lineTotal == sumSeq([k \in 1..n |->
                        IF (k - 1) \in grouped THEN maxTailOf(w2g[k - 1], 0) ELSE 0])
    IN [totalSyllables |-> totalSyllables,
        rhymingSyllables |-> rhymingSyllables,
        multiSyllables |-> multiSyllables,
        density |-> IF totalSyllables > 0
                    THEN [num |-> rhymingSyllables, den |-> totalSyllables]
                    ELSE [num |-> 0, den |-> 1],
        multiRatio |-> IF rhymingSyllables > 0
                       THEN [num |-> multiSyllables, den |-> rhymingSyllables]
                       ELSE [num |-> 0, den |-> 1],
        avgPerLine |-> IF Cardinality(rhymeLines) > 0
                       THEN [num |-> lineTotal, den |-> Cardinality(rhymeLines)]
                       ELSE [num |-> 0, den |-> 1],
        scheme |-> buildScheme(wds, w2g),
        uniqueRhymeGroups |-> Len(grps),
        uniqueAssonanceGroups |-> Len(agrps)]

(* Inputs *)

MaxWords == 2
MaxPoolWords == 4

\* tokens of letters and apostrophes: words with a vowel letter, a token
\* with none, and the name of a property of Object.prototype
Vocabulary == {"cat", "hat", "dog", "Www", "constructor"}

\* a blank, a line feed, and the two characters backslash, n
Separators == {" ", NL, LINE_SEPARATOR}

RECURSIVE TextsOf(_)
TextsOf(k) ==
    IF k = 1 THEN Vocabulary
    ELSE {w \o sep \o t : w \in Vocabulary, sep \in Separators, t \in TextsOf(k - 1)}

\* the empty text and texts of white space only
BlankTexts == {"", " ", NL, " " \o NL \o " ", "\t" \o NL}

Texts == BlankTexts \cup UNION {TextsOf(k) : k \in 1..MaxWords}

\* slider positions of the settings tab, in units of 1/10000
SettingsChoices ==
    [perfectThreshold : {1000}, slantThreshold : {2500, 5000},
     highlightAssonance : BOOLEAN, showInternalRhymes : BOOLEAN]

\* the defaults of the plugin
DefaultSettings ==
    [perfectThreshold |-> 1000, slantThreshold |-> 2500,
     highlightAssonance |-> TRUE, showInternalRhymes |-> TRUE]

SlantChoices == {st.slantThreshold : st \in SettingsChoices}

\* the defaults, with the slant slider at either position
PoolSettings == {[DefaultSettings EXCEPT !.slantThreshold = s] : s \in SlantChoices}

NoInternal == [l \in {} |-> <<>>]
NoMetrics == [scheme |-> ""]
Idle == [op |-> "none"]

(* analyze(text), one step per pass *)

Init ==
    /\ text \in Texts
    /\ settings \in SettingsChoices
    /\ pc = "extract"
    /\ words = <<>>
    /\ spans = <<>>
    /\ groups = <<>>
    /\ assonanceGroups = <<>>
    /\ wordToGroup = <<>>
    /\ internalRhymes = NoInternal
    /\ metrics = NoMetrics
    /\ outcome = "running"
    /\ call = Idle
    /\ ret = Idle
    /\ hiphop = Idle

\* lines 463-493; a TypeError of wordToPhones rejects the call
ExtractWords ==
    /\ pc = "extract"
    /\ IF extractWordsThrows(text)
       THEN /\ outcome' = "threw"
            /\ pc' = "done"
            /\ words' = words
       ELSE /\ words' = extractWords(text)
            /\ pc' = "spans"
            /\ outcome' = outcome
    /\ UNCHANGED <<text, settings, spans, groups, assonanceGroups, wordToGroup,
                   internalRhymes, metrics, call, ret, hiphop>>

\* lines 495-522
BuildSpans ==
    /\ pc = "spans"
    /\ spans' = buildSpans(words, 0)
    /\ pc' = "rhymes"
    /\ UNCHANGED <<text, settings, words, groups, assonanceGroups, wordToGroup,
                   internalRhymes, metrics, outcome, call, ret, hiphop>>

\* lines 524-586
GroupRhymes ==
    /\ pc = "rhymes"
    /\ groups' = rhymeGroups(words, spans, settings)
    /\ pc' = "assonance"
    /\ UNCHANGED <<text, settings, words, spans, assonanceGroups, wordToGroup,
                   internalRhymes, metrics, outcome, call, ret, hiphop>>

\* lines 588-614
GroupAssonance ==
    /\ pc = "assonance"
    /\ assonanceGroups' = assonancePass(words, settings)
    /\ pc' = "index"
    /\ UNCHANGED <<text, settings, words, spans, groups, wordToGroup,
                   internalRhymes, metrics, outcome, call, ret, hiphop>>

\* lines 616-635
BuildWordToGroup ==
    /\ pc = "index"
    /\ wordToGroup' = buildWordToGroup(words, spans, groups, assonanceGroups)
    /\ pc' = "internal"
    /\ UNCHANGED <<text, settings, words, spans, groups, assonanceGroups,
                   internalRhymes, metrics, outcome, call, ret, hiphop>>

\* lines 637-664
InternalRhymes ==
    /\ pc = "internal"
    /\ internalRhymes' = internalPass(words, settings)
    /\ pc' = "metrics"
    /\ UNCHANGED <<text, settings, words, spans, groups, assonanceGroups,
                   wordToGroup, metrics, outcome, call, ret, hiphop>>

\* lines 666-718
Return ==
    /\ pc = "metrics"
    /\ metrics' = buildMetrics(words, groups, assonanceGroups, wordToGroup)
    /\ outcome' = "returned"
    /\ pc' = "done"
    /\ UNCHANGED <<text, settings, words, spans, groups, assonanceGroups,
                   wordToGroup, internalRhymes, call, ret, hiphop>>

Next ==
    \/ ExtractWords
    \/ BuildSpans
    \/ GroupRhymes
    \/ GroupAssonance
    \/ BuildWordToGroup
    \/ InternalRhymes
    \/ Return

Spec == Init /\ [][Next]_vars

(* analyze from its words array on (line 495): the array is drawn from a  *)
(* pool of words whose vowel phonemes the syllabifier recognises, which   *)
(* are the phonemes without a stress digit.                               *)

WordPool ==
    { [text |-> "east", phones |-> <<"IY", "S", "T">>],
      [text |-> "last", phones |-> <<"L", "AE", "S", "T">>],
      [text |-> "cast", phones |-> <<"K", "AE", "S", "T">>],
      [text |-> "fact", phones |-> <<"F", "AE", "K", "T">>] }

poolWord(entry, lineIndex) ==
    LET syl == syllabify(entry.phones)
    IN [line |-> lineIndex, text |-> entry.text, lower |-> entry.text,
        phones |-> entry.phones, syllables |-> syl.syllables,
        stress |-> syl.stress, position |-> 0]

\* each word after the first stays on the line or opens the next one
lineOf(breaks, k) == Cardinality({b \in 2..k : breaks[b]})

InitWords ==
    /\ \E n \in 1..MaxPoolWords :
         \E chosen \in [1..n -> WordPool], breaks \in [1..n -> BOOLEAN] :
            /\ ~breaks[1]
            /\ words = [k \in 1..n |-> poolWord(chosen[k], lineOf(breaks, k))]
    /\ text = ""
    /\ settings \in PoolSettings
    /\ pc = "spans"
    /\ spans = <<>>
    /\ groups = <<>>
    /\ assonanceGroups = <<>>
    /\ wordToGroup = <<>>
    /\ internalRhymes = NoInternal
    /\ metrics = NoMetrics
    /\ outcome = "running"
    /\ call = Idle
    /\ ret = Idle
    /\ hiphop = Idle

NextWords ==
    \/ BuildSpans
    \/ GroupRhymes
    \/ GroupAssonance
    \/ BuildWordToGroup
    \/ InternalRhymes
    \/ Return

SpecWords == InitWords /\ [][NextWords]_vars

(* Properties *)

Grouped == pc \in {"assonance", "index", "internal", "metrics", "done"}
\* the grouping pass has just run
JustGrouped == pc = "assonance"
Returned == pc = "done" /\ outcome = "returned"

\* the word token behind member m of rhyme group g
memberWord(g, m) == spans[groups[g][m] + 1].wordIndex
memberWords(g) == {memberWord(g, m) : m \in 1..Len(groups[g])}
groupedWords(grps) ==
    UNION {{spans[grps[g][m] + 1].wordIndex : m \in 1..Len(grps[g])} :
              g \in 1..Len(grps)}

rhymeGroupsAt(slant) ==
    rhymeGroups(words, spans, [settings EXCEPT !.slantThreshold = slant])

firstSeedGroup(slant) ==
    IF Len(spans) = 0 THEN <<>>
    ELSE joinSeed(words, spans, [settings EXCEPT !.slantThreshold = slant],
                  0, 1, <<0>>, [k \in 1..Len(spans) |-> k = 1]).groupIndices

SeqSet(q) == {q[k] : k \in 1..Len(q)}

C3_Disjoint ==
    LET all == flatten(groups)
    IN \A a, b \in 1..Len(all) : a # b => all[a] # all[b]

C3_Witness == Grouped /\ Len(groups) >= 2

\* C4: a rhyme group has at least 2 members, an assonance group at least 3
C4_Minimality ==
    /\ \A g \in 1..Len(groups) : Len(groups[g]) >= 2
    /\ \A g \in 1..Len(assonanceGroups) : Len(assonanceGroups[g]) >= 3

C4_Witness == Returned /\ Len(groups) >= 1 /\ Len(assonanceGroups) >= 1

\* the rhyme keys of the words of the result, in document order
keysOfWords ==
    [k \in 1..Len(words) |-> getRhymeKey(words[k].syllables, words[k].stress)]

CatHat == "cat" \o NL \o "hat"
CatDog == "cat" \o NL \o "dog"

\* C7: "cat", a line feed, "hat" under the default thresholds: both words
\* get the key (A, [T]), they are on lines 0 and 1, they form the one rhyme
\* group, and the scheme is "AA"
C7_PerfectRhyme ==
    (Returned /\ text = CatHat /\ settings = DefaultSettings) =>
        /\ Len(words) = 2
        /\ \A k \in 1..Len(words) :
             keysOfWords[k] = [ok |-> TRUE, n |-> "A", c |-> <<"T">>]
        /\ words[1].line = 0 /\ words[2].line = 1
        /\ Len(groups) = 1 /\ Len(groups[1]) = 2
        /\ metrics.scheme = "AA"

\* C8: the scheme has "-" for a line without a word and for a line whose
\* last word is in no rhyme group, also when that word is in an assonance
\* group; "cat", a line feed, "dog" gives no rhyme group and the scheme "--"
C8_Placeholder ==
    Returned =>
        /\ \A l \in 0..(Len(metrics.scheme) - 1) :
             LET last == lastWordOnLine(words, l)
             IN (last = NULL \/ last \notin groupedWords(groups))
                    => CharAt(metrics.scheme, l) = "-"
        /\ text = CatDog => Len(groups) = 0 /\ metrics.scheme = "--"

MaxCoda == 2

CodaConsonants == {"T", "D", "S"}

\* plain labels, compound labels, a label that ends in the separator
NucleusChoices == {"A", "AH", "EE", "UH+A", "EE+A", "A+"}

RECURSIVE CodasOf(_)
CodasOf(k) ==
    IF k = 0 THEN {<<>>}
    ELSE {Append(c, x) : c \in CodasOf(k - 1), x \in CodaConsonants}

KeyChoices ==
    [ok : {TRUE}, n : NucleusChoices, c : UNION {CodasOf(k) : k \in 0..MaxCoda}]

InitDist ==
    /\ call \in [op : {"rhymeDistance"}, k1 : KeyChoices, k2 : KeyChoices]
    /\ ret = Idle
    /\ pc = "call"
    /\ text = ""
    /\ settings = DefaultSettings
    /\ words = <<>>
    /\ spans = <<>>
    /\ groups = <<>>
    /\ assonanceGroups = <<>>
    /\ wordToGroup = <<>>
    /\ internalRhymes = NoInternal
    /\ metrics = NoMetrics
    /\ outcome = "running"
    /\ hiphop = Idle

\* lines 379-382, on (k1, k2), on (k2, k1) and on (k1, k1)
CallRhymeDistance ==
    /\ pc = "call"
    /\ call.op = "rhymeDistance"
    /\ ret' = [op |-> "rhymeDistance",
               d12 |-> rhymeDistance(call.k1, call.k2),
               d21 |-> rhymeDistance(call.k2, call.k1),
               d11 |-> rhymeDistance(call.k1, call.k1)]
    /\ pc' = "done"
    /\ outcome' = "returned"
    /\ UNCHANGED <<text, settings, words, spans, groups, assonanceGroups,
                   wordToGroup, internalRhymes, metrics, call, hiphop>>

NextDist == CallRhymeDistance

SpecDist == InitDist /\ [][NextDist]_vars

Measured == pc = "done" /\ ret.op = "rhymeDistance"

isCompound(n) == Len(split(n, "+")) > 1

C6_Symmetric == Measured => ret.d12 = ret.d21

C6_Witness ==
    /\ Measured
    /\ isCompound(call.k1.n) /\ ~isCompound(call.k2.n)
    /\ Len(call.k1.c) > Len(call.k2.c) /\ Len(call.k2.c) > 0
    /\ ret.d12 > 0

(* The hip-hop engine: EnhancedRhymeAnalyzer of main-hiphop.js and the     *)
(* HipHopRhymeAnalyzer it requires from hip-hop-enhancements.js, which is  *)
(* src/unnamed/part_001.  cleanWord, g2pHeuristic, syllabify,              *)
(* normalizePhone, normalizeCoda and getVowelFamily of main-hiphop.js have *)
(* the text of their namesakes in main.js and are the operators above.     *)

HIPHOP_CUSTOM_ARPA ==
    "orange" :> <<"AO1", "R", "IH0", "N", "JH">> @@
    "doorhinge" :> <<"D", "AO1", "R", "HH", "IH0", "N", "JH">> @@
    "fourinch" :> <<"F", "AO1", "R", "IH0", "N", "CH">> @@
    "syringe" :> <<"S", "ER0", "IH1", "N", "JH">> @@
    "nigga" :> <<"N", "IH1", "G", "AH0">> @@
    "niggas" :> <<"N", "IH1", "G", "AH0", "Z">> @@
    "playa" :> <<"P", "L", "EY1", "AH0">> @@
    "gangsta" :> <<"G", "AE1", "NG", "S", "T", "AH0">> @@
    "hustla" :> <<"HH", "AH1", "S", "L", "AH0">> @@
    "baller" :> <<"B", "AO1", "L", "ER0">> @@
    "realest" :> <<"R", "IY1", "L", "IH0", "S", "T">> @@
    "illest" :> <<"IH1", "L", "IH0", "S", "T">> @@
    "dopest" :> <<"D", "OW1", "P", "IH0", "S", "T">> @@
    "villain" :> <<"V", "IH1", "L", "AH0", "N">> @@
    "chillin" :> <<"CH", "IH1", "L", "IH0", "N">> @@
    "illin" :> <<"IH1", "L", "IH0", "N">> @@
    "spillin" :> <<"S", "P", "IH1", "L", "IH0", "N">> @@
    "choppa" :> <<"CH", "AA1", "P", "AH0">> @@
    "poppa" :> <<"P", "AA1", "P", "AH0">> @@
    "stoppa" :> <<"S", "T", "AA1", "P", "AH0">> @@
    "foshizzle" :> <<"F", "AO1", "SH", "IH1", "Z", "AH0", "L">> @@
    "nizzle" :> <<"N", "IH1", "Z", "AH0", "L">> @@
    "dizzle" :> <<"D", "IH1", "Z", "AH0", "L">> @@
    "bizzle" :> <<"B", "IH1", "Z", "AH0", "L">> @@
    "microphone" :> <<"M", "AY1", "K", "R", "AH0", "F", "OW2", "N">> @@
    "cyclone" :> <<"S", "AY1", "K", "L", "OW2", "N">> @@
    "milestone" :> <<"M", "AY1", "L", "S", "T", "OW2", "N">> @@
    "whatup" :> <<"W", "AH1", "T", "AH0", "P">> @@
    "holup" :> <<"HH", "OW1", "L", "AH0", "P">> @@
    "hinge" :> <<"HH", "IH1", "N", "JH">> @@
    "door" :> <<"D", "AO1", "R">> @@
    "four" :> <<"F", "AO1", "R">> @@
    "more" :> <<"M", "AO1", "R">> @@
    "store" :> <<"S", "T", "AO1", "R">> @@
    "turnt" :> <<"T", "ER1", "N", "T">> @@
    "crunk" :> <<"K", "R", "AH1", "NG", "K">> @@
    "trill" :> <<"T", "R", "IH1", "L">> @@
    "swag" :> <<"S", "W", "AE1", "G">> @@
    "dope" :> <<"D", "OW1", "P">> @@
    "whack" :> <<"W", "AE1", "K">> @@
    "phat" :> <<"F", "AE1", "T">> @@
    "lit" :> <<"L", "IH1", "T">> @@
    "fire" :> <<"F", "AY1", "ER0">> @@
    "bars" :> <<"B", "AA1", "R", "Z">> @@
    "spittin" :> <<"S", "P", "IH1", "T", "IH0", "N">> @@
    "flowin" :> <<"F", "L", "OW1", "IH0", "N">> @@
    "ballin" :> <<"B", "AO1", "L", "IH0", "N">> @@
    "stackin" :> <<"S", "T", "AE1", "K", "IH0", "N">> @@
    "grindin" :> <<"G", "R", "AY1", "N", "D", "IH0", "N">>

\* { ...original entries, ...HIPHOP_CUSTOM_ARPA }: a later key wins
ENHANCED_CUSTOM_ARPA == HIPHOP_CUSTOM_ARPA @@ CUSTOM_ARPA

enhancedWordToPhones(word) ==
    LET cleaned == cleanWord(word)
    IN IF cleaned \in DOMAIN ENHANCED_CUSTOM_ARPA THEN ENHANCED_CUSTOM_ARPA[cleaned]
       ELSE g2pHeuristic(cleaned)

\* the spread of a property of Object.prototype raises TypeError
enhancedWordToPhonesThrows(word) ==
    LET cleaned == cleanWord(word)
    IN cleaned \notin DOMAIN ENHANCED_CUSTOM_ARPA /\ cleaned \in OBJECT_PROTOTYPE_KEYS

\* s.split(/\s+/): the pieces between the runs of white space; a run at
\* either end leaves an empty piece there
RECURSIVE splitWsLoop(_, _)
splitWsLoop(s, cur) ==
    IF Len(s) = 0 THEN <<cur>>
    ELSE IF IsSpace(CharAt(s, 0))
         THEN <<cur>> \o splitWsLoop(trimStart(s), "")
         ELSE splitWsLoop(StrFrom(s, 1), cur \o CharAt(s, 0))

splitWs(s) == splitWsLoop(s, "")

\* the s characters that follow position i
RECURSIVE runOfS(_, _)
runOfS(s, i) == IF CharAt(s, i) = "s" THEN 1 + runOfS(s, i + 1) ELSE 0

\* s.split(/\\s+/): the separator is a backslash followed by one or more s
RECURSIVE splitBackslashS(_, _)
splitBackslashS(s, cur) ==
    IF Len(s) = 0 THEN <<cur>>
    ELSE IF CharAt(s, 0) = BS /\ runOfS(s, 1) > 0
         THEN <<cur>> \o splitBackslashS(StrFrom(s, 1 + runOfS(s, 1)), "")
         ELSE splitBackslashS(StrFrom(s, 1), cur \o CharAt(s, 0))

\* s.indexOf(sub, from), -1 when there is none
RECURSIVE indexOf(_, _, _)
indexOf(s, sub, from) ==
    IF from + Len(sub) > Len(s) THEN -1
    ELSE IF substr(s, from, Len(sub)) = sub \/ Len(sub) = 0 THEN from
    ELSE indexOf(s, sub, from + 1)

includes(s, sub) == indexOf(s, sub, 0) >= 0

\* the key object {nucleus, coda, vowelFamily}; null has ok = FALSE, a null
\* nucleus is ""
NoEnhancedKey == [ok |-> FALSE, nucleus |-> "", coda |-> <<>>, vowelFamily |-> 9]

enhancedGetRhymeKey(syllables, stressIndex) ==
    IF Len(syllables) = 0 THEN NoEnhancedKey
    ELSE LET index == IF stressIndex # NULL THEN stressIndex ELSE Len(syllables) - 1
             clampedIndex == Max(0, Min(index, Len(syllables) - 1))
             cur == extractNucleusAndCoda(syllables[clampedIndex + 1], "", <<>>)
         IN [ok |-> TRUE, nucleus |-> cur.nucleus, coda |-> normalizeCoda(cur.coda),
             vowelFamily |-> getVowelFamily(cur.nucleus)]

SIMILAR_PAIRS ==
    << <<"P", "B">>, <<"T", "D">>, <<"K", "G">>, <<"F", "V">>, <<"S", "Z">>,
       <<"SH", "ZH">>, <<"CH", "JH">>, <<"TH", "DH">>, <<"M", "N">>,
       <<"N", "NG">>, <<"L", "R">>, <<"W", "Y">> >>

areConsonantsSimilar(c1, c2) ==
    \E k \in 1..Len(SIMILAR_PAIRS) :
        SIMILAR_PAIRS[k] = <<c1, c2>> \/ SIMILAR_PAIRS[k] = <<c2, c1>>

NEIGHBOUR_VOWELS ==
    "IY" :> {"IH", "EH"} @@ "IH" :> {"IY", "EH"} @@ "EH" :> {"IH", "AE"} @@
    "AE" :> {"EH", "AA"} @@ "AA" :> {"AE", "AH"} @@ "AH" :> {"AA", "UH"} @@
    "UH" :> {"AH", "UW"} @@ "UW" :> {"UH", "OW"} @@ "OW" :> {"UW", "AO"} @@
    "AO" :> {"OW", "AA"}

arePhonemesSimilar(p1, p2) ==
    \/ p1 \in DOMAIN NEIGHBOUR_VOWELS /\ p2 \in NEIGHBOUR_VOWELS[p1]
    \/ p2 \in DOMAIN NEIGHBOUR_VOWELS /\ p1 \in NEIGHBOUR_VOWELS[p2]
    \/ areConsonantsSimilar(p1, p2)

\* a similarity is the exact fraction num / den
Fraction(num, den) == [num |-> num, den |-> den]
exceeds(f, tenths) == 10 * f.num > tenths * f.den

\* HipHopRhymeAnalyzer.calculateCodaSimilarity: a match counts 1, a
\* similar pair 0.5
hipHopCodaSimilarity(coda1, coda2) ==
    IF Len(coda1) = 0 /\ Len(coda2) = 0 THEN Fraction(1, 1)
    ELSE IF Len(coda1) = 0 \/ Len(coda2) = 0 THEN Fraction(3, 10)
    ELSE LET norm1 == normalizeCoda(coda1)
             norm2 == normalizeCoda(coda2)
             minLen == Min(Len(norm1), Len(norm2))
             halves == [i \in 1..minLen |->
                          IF norm1[i] = norm2[i] THEN 2
                          ELSE IF areConsonantsSimilar(norm1[i], norm2[i]) THEN 1
                          ELSE 0]
         IN IF norm1 = norm2 THEN Fraction(1, 1)
            ELSE Fraction(sumSeq(halves), 2 * Max(Len(norm1), Len(norm2)))

\* 0.5 for an equal nucleus (two null nuclei are equal), else 0.3 for an
\* equal vowel family, plus half the coda similarity
checkPhoneticSimilarity(phones1, phones2) ==
    IF Len(phones1) = 0 \/ Len(phones2) = 0 THEN Fraction(0, 1)
    ELSE LET s1 == syllabify(phones1)
             s2 == syllabify(phones2)
             key1 == enhancedGetRhymeKey(s1.syllables, s1.stress)
             key2 == enhancedGetRhymeKey(s2.syllables, s2.stress)
             tenths == IF key1.nucleus = key2.nucleus THEN 5
                       ELSE IF key1.vowelFamily = key2.vowelFamily THEN 3
                       ELSE 0
             codaSim == hipHopCodaSimilarity(key1.coda, key2.coda)
         IN IF ~key1.ok \/ ~key2.ok THEN Fraction(0, 1)
            ELSE Fraction(tenths * 2 * codaSim.den + 10 * codaSim.num, 20 * codaSim.den)

\* the phonemes compared from the end, up to 8 of them
checkMultisyllabicSimilarity(phones1, phones2) ==
    LET minLen == Min(Len(phones1), Len(phones2))
        checkLen == Min(minLen, 8)
        halves == [i \in 1..checkLen |->
                     LET p1 == normalizePhone(phones1[Len(phones1) - i + 1])
                         p2 == normalizePhone(phones2[Len(phones2) - i + 1])
                     IN IF p1 = p2 THEN 2
                        ELSE IF arePhonemesSimilar(p1, p2) THEN 1
                        ELSE 0]
    IN IF minLen < 3 THEN Fraction(0, 1)
       ELSE Fraction(sumSeq(halves), 2 * checkLen)

(* EnhancedRhymeAnalyzer: the standard analysis *)

\* EnhancedRhymeAnalyzer.calculateCodaSimilarity: an equal consonant at
\* the same index counts 1, an equivalent one 0.7; in tenths over maxLen
enhancedCodaSimilarity(coda1, coda2) ==
    IF Len(coda1) = 0 /\ Len(coda2) = 0 THEN Fraction(1, 1)
    ELSE IF Len(coda1) = 0 \/ Len(coda2) = 0 THEN Fraction(3, 10)
    ELSE LET maxLen == Max(Len(coda1), Len(coda2))
             tenths == [i \in 1..maxLen |->
                          IF i <= Len(coda1) /\ i <= Len(coda2)
                          THEN (IF coda1[i] = coda2[i] THEN 10
                                ELSE IF consonantEquivalence(coda1[i], coda2[i]) THEN 7
                                ELSE 0)
                          ELSE 0]
         IN Fraction(sumSeq(tenths), 10 * maxLen)

\* Math.min(1, nucleus part + (1 - codaSimilarity) * 0.4)
calculateRhymeDistance(key1, key2) ==
    IF ~key1.ok \/ ~key2.ok THEN Fraction(1, 1)
    ELSE LET hundredths == IF key1.nucleus = key2.nucleus THEN 0
                           ELSE IF key1.vowelFamily = key2.vowelFamily THEN 25
                           ELSE 60
             sim == IF key1.coda = key2.coda THEN Fraction(1, 1)
                    ELSE enhancedCodaSimilarity(key1.coda, key2.coda)
             num == hundredths * sim.den + 40 * (sim.den - sim.num)
             den == 100 * sim.den
         IN IF num > den THEN Fraction(1, 1) ELSE Fraction(num, den)

\* distance <= this.settings.perfectThreshold, the threshold in 1/10000
withinPerfect(st, key1, key2) ==
    LET d == calculateRhymeDistance(key1, key2)
    IN 10000 * d.num <= st.perfectThreshold * d.den

\* the characters of the pieces before piece w, and their separators
RECURSIVE offsetOf(_, _)
offsetOf(pieces, w) ==
    IF w <= 1 THEN 0 ELSE offsetOf(pieces, w - 1) + Len(pieces[w - 1]) + 1

\* the wordSpans entry of a word, if it gets one
spanOfWord(lines, lineNum, ws, w) ==
    LET word == ws[w]
        cleaned == cleanWord(word)
        phones == enhancedWordToPhones(cleaned)
        syl == syllabify(phones)
        rhymeKey == enhancedGetRhymeKey(syl.syllables, syl.stress)
        wordStart == offsetOf(lines, lineNum + 1)
                         + indexOf(lines[lineNum + 1], word, offsetOf(ws, w))
    IN IF /\ Len(cleaned) > 0 /\ cleaned \notin STOP_WORDS
          /\ Len(phones) > 0 /\ rhymeKey.ok /\ rhymeKey.nucleus # ""
       THEN << [text |-> word, cleaned |-> cleaned, start |-> wordStart,
                end |-> wordStart + Len(word), key |-> rhymeKey, phones |-> phones,
                syllables |-> syl.syllables, stressIndex |-> syl.stress,
                lineNumber |-> lineNum] >>
       ELSE <<>>

wordSpansOf(txt) ==
    LET lines == split(txt, LINE_SEPARATOR)
    IN flatten([l \in 1..Len(lines) |->
         LET ws == splitBackslashS(lines[l], "")
         IN flatten([w \in 1..Len(ws) |-> spanOfWord(lines, l - 1, ws, w)])])

\* a word that is neither empty nor a stop word makes wordToPhones raise
performStandardAnalysisThrows(txt) ==
    LET lines == split(txt, LINE_SEPARATOR)
    IN \E l \in 1..Len(lines) :
         LET ws == splitBackslashS(lines[l], "")
         IN \E w \in 1..Len(ws) :
              /\ Len(cleanWord(ws[w])) > 0
              /\ cleanWord(ws[w]) \notin STOP_WORDS
              /\ enhancedWordToPhonesThrows(cleanWord(ws[w]))

\* the inner loop of groupRhymes for seed i
RECURSIVE enhancedJoinSeed(_, _, _, _, _, _)
enhancedJoinSeed(sps, st, i, j, group, used) ==
    IF j > Len(sps) THEN [group |-> group, used |-> used]
    ELSE IF j \notin used /\ withinPerfect(st, sps[i].key, sps[j].key)
    THEN enhancedJoinSeed(sps, st, i, j + 1, Append(group, sps[j]), used \cup {j})
    ELSE enhancedJoinSeed(sps, st, i, j + 1, group, used)

RECURSIVE enhancedGroupLoop(_, _, _, _)
enhancedGroupLoop(sps, st, i, used) ==
    IF i > Len(sps) THEN <<>>
    ELSE IF i \in used THEN enhancedGroupLoop(sps, st, i + 1, used)
    ELSE LET r == enhancedJoinSeed(sps, st, i, i + 1, <<sps[i]>>, used \cup {i})
         IN (IF Len(r.group) >= 2 THEN << r.group >> ELSE <<>>)
            \o enhancedGroupLoop(sps, st, i + 1, r.used)

\* groups.sort((a, b) => b.length - a.length): stable, longest first
RECURSIVE sortBySize(_)
sortBySize(grps) ==
    IF Len(grps) = 0 THEN <<>>
    ELSE LET longest == CHOOSE k \in 1..Len(grps) :
                 /\ \A q \in 1..Len(grps) : Len(grps[q]) <= Len(grps[k])
                 /\ \A q \in 1..(k - 1) : Len(grps[q]) < Len(grps[k])
         IN << grps[longest] >>
            \o sortBySize(SubSeq(grps, 1, longest - 1) \o SubSeq(grps, longest + 1, Len(grps)))

enhancedGroupRhymes(sps, st) == sortBySize(enhancedGroupLoop(sps, st, 1, {}))

calculateStats(sps, grps) ==
    LET rhymedWords == sumSeq([g \in 1..Len(grps) |-> Len(grps[g])])
    IN [totalWords |-> Len(sps), rhymedWords |-> rhymedWords, rhymeGroups |-> Len(grps),
        avgGroupSize |-> IF Len(grps) > 0 THEN Fraction(rhymedWords, Len(grps))
                         ELSE Fraction(0, 1),
        perfectRhymes |-> Cardinality({g \in 1..Len(grps) : Len(grps[g]) >= 2}),
        slantRhymes |-> 0]

performStandardAnalysis(txt, st) ==
    LET wordSpans == wordSpansOf(txt)
        grps == enhancedGroupRhymes(wordSpans, st)
    IN [groups |-> grps, stats |-> calculateStats(wordSpans, grps)]

(* HipHopRhymeAnalyzer: the detectors *)

phonesOfAll(ws) == flatten([k \in 1..Len(ws) |-> enhancedWordToPhones(ws[k])])

someWordThrows(ws) == \E k \in 1..Len(ws) : enhancedWordToPhonesThrows(ws[k])

\* .filter(w => w.length > 2)
RECURSIVE longWords(_)
longWords(ws) ==
    IF Len(ws) = 0 THEN <<>>
    ELSE (IF Len(Head(ws)) > 2 THEN <<Head(ws)>> ELSE <<>>) \o longWords(Tail(ws))

\* the entry pushed for the words at positions i < j, if any
internalRhymeAt(ws, i, j) ==
    IF exceeds(checkPhoneticSimilarity(enhancedWordToPhones(ws[i + 1]),
                                       enhancedWordToPhones(ws[j + 1])), 7)
    THEN << [word1 |-> ws[i + 1], word2 |-> ws[j + 1],
             position1 |-> i, position2 |-> j, type |-> "internal"] >>
    ELSE <<>>

\* the pairs of words longer than 2 characters with similarity above 0.7
detectInternalRhymes(line) ==
    LET ws == longWords(splitWs(line))
    IN flatten([a \in 1..(Len(ws) - 1) |->
         flatten([b \in 1..(Len(ws) - a) |-> internalRhymeAt(ws, a - 1, a + b - 1)])])

detectInternalRhymesThrows(line) ==
    LET ws == longWords(splitWs(line))
    IN Len(ws) >= 2 /\ someWordThrows(ws)

\* two adjacent words run together against every word of the line and of
\* the three lines after it, with similarity above 0.8
compoundRhymeAt(first, second, target, i, k) ==
    IF exceeds(checkPhoneticSimilarity(enhancedWordToPhones(first \o second),
                                       enhancedWordToPhones(target)), 8)
    THEN << [compound |-> first \o " " \o second, target |-> target,
             line1 |-> i, line2 |-> k, type |-> "compound"] >>
    ELSE <<>>

\* the entries of the adjacent words first, second of line i
compoundRhymesOf(lines, i, first, second) ==
    flatten([d \in 1..(Min(i + 4, Len(lines)) - i) |->
       LET targetWords == splitWs(lines[i + d])
       IN flatten([t \in 1..Len(targetWords) |->
            compoundRhymeAt(first, second, targetWords[t], i, i + d - 1)])])

detectCompoundRhymes(txt) ==
    LET lines == split(txt, NL)
    IN flatten([l \in 1..Len(lines) |->
         LET ws == splitWs(lines[l])
         IN flatten([j \in 1..(Len(ws) - 1) |->
              compoundRhymesOf(lines, l - 1, ws[j], ws[j + 1])])])

detectCompoundRhymesThrows(txt) ==
    LET lines == split(txt, NL)
    IN \E i \in 1..Len(lines) :
         LET ws == splitWs(lines[i])
         IN \E j \in 1..(Len(ws) - 1) :
              \/ enhancedWordToPhonesThrows(ws[j] \o ws[j + 1])
              \/ \E k \in i..Min(i + 3, Len(lines)) : someWordThrows(splitWs(lines[k]))

getPhrasePhonemesFlat(phrase) == phonesOfAll(splitWs(phrase))

\* the pairs of 3-word phrases of adjacent lines with similarity above
\* 0.7, before the syllable count of the entry is taken
chainCandidateAt(phrase1, phrase2, i) ==
    LET phones1 == getPhrasePhonemesFlat(phrase1)
        phones2 == getPhrasePhonemesFlat(phrase2)
        similarity == checkMultisyllabicSimilarity(phones1, phones2)
    IN IF exceeds(similarity, 7)
       THEN << [phrase1 |-> phrase1, phrase2 |-> phrase2, line1 |-> i,
                line2 |-> i + 1, similarity |-> similarity,
                phones1 |-> phones1, phones2 |-> phones2] >>
       ELSE <<>>

\* words.slice(j, j + 3).join(' ')
phraseAt(ws, j) == join(SubSeq(ws, j + 1, j + 3), " ")

chainCandidates(txt) ==
    LET lines == split(txt, NL)
    IN flatten([l \in 1..(Len(lines) - 1) |->
         LET line1Words == splitWs(lines[l])
             line2Words == splitWs(lines[l + 1])
         IN flatten([j \in 1..(Len(line1Words) - 2) |->
              flatten([k \in 1..(Len(line2Words) - 2) |->
                 chainCandidateAt(phraseAt(line1Words, j - 1),
                                  phraseAt(line2Words, k - 1), l - 1)])])])

\* the static properties of class EnhancedRhymeAnalyzer: it declares none
ENHANCED_STATICS == {}

\* this.baseAnalyzer.constructor.ARPA_VOWELS.has(base), in the callback of
\* phones.filter: the callback runs once per phoneme, and .has of
\* undefined raises TypeError
countSyllablesThrows(phones) == Len(phones) > 0 /\ "ARPA_VOWELS" \notin ENHANCED_STATICS

\* the length of the filtered array
countSyllables(phones) ==
    Cardinality({k \in 1..Len(phones) :
        "ARPA_VOWELS" \in ENHANCED_STATICS /\ normalizePhone(phones[k]) \in ARPA_VOWELS})

detectMultisyllabicChainsThrows(txt) ==
    LET lines == split(txt, NL)
        found == chainCandidates(txt)
    IN \/ \E c \in 1..Len(found) :
            countSyllablesThrows(found[c].phones1) \/ countSyllablesThrows(found[c].phones2)
       \/ \E i \in 1..(Len(lines) - 1) :
            /\ Len(splitWs(lines[i])) >= 3 /\ Len(splitWs(lines[i + 1])) >= 3
            /\ someWordThrows(splitWs(lines[i]) \o splitWs(lines[i + 1]))

detectMultisyllabicChains(txt) ==
    LET found == chainCandidates(txt)
    IN [c \in 1..Len(found) |->
          [phrase1 |-> found[c].phrase1, phrase2 |-> found[c].phrase2,
           line1 |-> found[c].line1, line2 |-> found[c].line2,
           similarity |-> found[c].similarity,
           syllableCount |-> Min(countSyllables(found[c].phones1),
                                 countSyllables(found[c].phones2)),
           type |-> "multisyllabic"]]

\* the stress pattern of a word, a character per syllable
stressPatternOf(word) ==
    LET syl == syllabify(enhancedWordToPhones(word))
    IN join([i \in 1..Len(syl.syllables) |-> IF i - 1 = syl.stress THEN "1" ELSE "0"], "")

onesOf(pattern) == Cardinality({i \in 0..(Len(pattern) - 1) : CharAt(pattern, i) = "1"})

estimateTempo(pattern) ==
    IF Len(pattern) < 4 THEN "slow"
    ELSE IF 10 * onesOf(pattern) > 6 * Len(pattern) THEN "rapid"
    ELSE IF 10 * onesOf(pattern) > 4 * Len(pattern) THEN "medium"
    ELSE "laid-back"

\* the longest run of stressed syllables
maxConsecutive(pattern) ==
    LET runs == {n \in 0..Len(pattern) :
                   \E i \in 0..(Len(pattern) - n) :
                      \A k \in i..(i + n - 1) : CharAt(pattern, k) = "1"}
    IN CHOOSE n \in runs : \A m \in runs : m <= n

classifyFlowStyle(pattern) ==
    IF includes(pattern, "1010") THEN "bounce"
    ELSE IF includes(pattern, "1001") THEN "triplet"
    ELSE IF includes(pattern, "111") THEN "chopper"
    ELSE IF includes(pattern, "10001000") THEN "laid-back"
    ELSE IF includes(pattern, "110110") THEN "syncopated"
    ELSE IF maxConsecutive(pattern) >= 3 THEN "aggressive"
    ELSE IF maxConsecutive(pattern) = 0 THEN "conversational"
    ELSE "standard"

analyzeFlowPattern(txt) ==
    LET lines == split(txt, NL)
    IN [l \in 1..Len(lines) |->
          LET ws == splitWs(lines[l])
              stressPattern == join([k \in 1..Len(ws) |-> stressPatternOf(ws[k])], "")
          IN [line |-> lines[l], syllableCount |-> Len(stressPattern),
              stressPattern |-> stressPattern, tempo |-> estimateTempo(stressPattern),
              style |-> classifyFlowStyle(stressPattern)]]

analyzeFlowPatternThrows(txt) ==
    LET lines == split(txt, NL)
    IN \E l \in 1..Len(lines) : someWordThrows(splitWs(lines[l]))

\* the style of most patterns, the first of them on a tie, 'standard'
\* when there is no pattern
getMostCommonFlowStyle(patterns) ==
    LET countOf(style) == Cardinality({k \in 1..Len(patterns) : patterns[k].style = style})
        firstAt(k) == \A q \in 1..(k - 1) : patterns[q].style # patterns[k].style
    IN IF Len(patterns) = 0 THEN "standard"
       ELSE LET best == CHOOSE k \in 1..Len(patterns) :
                    /\ firstAt(k)
                    /\ \A q \in 1..Len(patterns) :
                          countOf(patterns[q].style) <= countOf(patterns[k].style)
                    /\ \A q \in 1..(k - 1) :
                          countOf(patterns[q].style) < countOf(patterns[k].style)
            IN patterns[best].style

sumOfSyllableCounts(chains) == sumSeq([c \in 1..Len(chains) |-> chains[c].syllableCount])

\* Math.min(100, score * 2)
calculateComplexityScore(internal, compound, multisyllabic) ==
    Min(100, 2 * (2 * Len(internal) + 3 * Len(compound) + sumOfSyllableCounts(multisyllabic)))

\* [...new Set(artists)]: each name once, in order of first push
RECURSIVE unique(_)
unique(q) ==
    IF Len(q) = 0 THEN <<>>
    ELSE LET rest == unique(Front(q))
         IN IF \E k \in 1..Len(rest) : rest[k] = Last(q) THEN rest ELSE Append(rest, Last(q))

matchArtistStyle(internal, compound, flowPatterns) ==
    LET styles == {flowPatterns[k].style : k \in 1..Len(flowPatterns)}
    IN unique(
         (IF Len(internal) > 10 THEN <<"Rakim", "MF DOOM">> ELSE <<>>)
         \o (IF Len(compound) > 5 THEN <<"Eminem">> ELSE <<>>)
         \o (IF "chopper" \in styles THEN <<"Tech N9ne", "Twista">> ELSE <<>>)
         \o (IF "laid-back" \in styles THEN <<"Snoop Dogg", "Warren G">> ELSE <<>>)
         \o (IF "aggressive" \in styles THEN <<"Eminem", "DMX">> ELSE <<>>)
         \o (IF "conversational" \in styles THEN <<"Biggie", "Jay-Z">> ELSE <<>>))

\* lines 404-411: the profile of the findings
profileOf(txt, internal, compound, multisyllabicChains, flowPatterns) ==
    [internalRhymeDensity |-> Fraction(Len(internal), Len(split(txt, NL))),
     compoundRhymeCount |-> Len(compound),
     avgMultisyllabicLength |->
         IF Len(multisyllabicChains) > 0
         THEN Fraction(sumOfSyllableCounts(multisyllabicChains), Len(multisyllabicChains))
         ELSE Fraction(0, 1),
     dominantFlowStyle |-> getMostCommonFlowStyle(flowPatterns),
     complexity |-> calculateComplexityScore(internal, compound, multisyllabicChains),
     similarArtists |-> matchArtistStyle(internal, compound, flowPatterns)]

\* the profile runs the four detectors again
generateArtistProfile(txt) ==
    profileOf(txt, detectInternalRhymes(txt), detectCompoundRhymes(txt),
              detectMultisyllabicChains(txt), analyzeFlowPattern(txt))

generateArtistProfileThrows(txt) ==
    \/ detectInternalRhymesThrows(txt)
    \/ detectCompoundRhymesThrows(txt)
    \/ detectMultisyllabicChainsThrows(txt)
    \/ analyzeFlowPatternThrows(txt)

(* EnhancedRhymeAnalyzer.analyzeText(text), one step per call it makes *)

MaxLineWords == 3

\* a token that keeps a phoneme and a token that keeps none
HipHopVocabulary == {"Wow", "cat"}

RECURSIVE LinesOf(_)
LinesOf(k) ==
    IF k = 0 THEN {""}
    ELSE IF k = 1 THEN HipHopVocabulary
    ELSE {w \o " " \o l : w \in HipHopVocabulary, l \in LinesOf(k - 1)}

HipHopLines == UNION {LinesOf(k) : k \in 0..MaxLineWords}

\* texts of one line and of two lines
HipHopTexts == HipHopLines \cup {a \o NL \o b : a, b \in HipHopLines}

NoStats ==
    [totalWords |-> 0, rhymedWords |-> 0, rhymeGroups |-> 0,
     avgGroupSize |-> Fraction(0, 1), perfectRhymes |-> 0, slantRhymes |-> 0]

NoProfile == [dominantFlowStyle |-> ""]

\* the result for a text that is empty or white space
EmptyResult ==
    [op |-> "analyzeText", groups |-> <<>>, stats |-> NoStats, internalRhymes |-> <<>>,
     compoundRhymes |-> <<>>, multisyllabicChains |-> <<>>, flowPatterns |-> <<>>,
     artistProfile |-> NoProfile]

InitHipHop ==
    /\ text \in HipHopTexts
    /\ settings = DefaultSettings
    /\ pc = "hh_standard"
    /\ hiphop = Idle
    /\ words = <<>>
    /\ spans = <<>>
    /\ groups = <<>>
    /\ assonanceGroups = <<>>
    /\ wordToGroup = <<>>
    /\ internalRhymes = NoInternal
    /\ metrics = NoMetrics
    /\ outcome = "running"
    /\ call = Idle
    /\ ret = Idle

hipHopFrame ==
    <<text, settings, words, spans, groups, assonanceGroups, wordToGroup,
      internalRhymes, metrics, call, ret>>

\* main-hiphop.js 286-308: the early return, or performStandardAnalysis
StandardAnalysis ==
    /\ pc = "hh_standard"
    /\ IF Len(trim(text)) = 0
       THEN /\ hiphop' = EmptyResult
            /\ outcome' = "returned"
            /\ pc' = "done"
       ELSE IF performStandardAnalysisThrows(text)
       THEN /\ outcome' = "threw"
            /\ pc' = "done"
            /\ hiphop' = hiphop
       ELSE /\ hiphop' = [EmptyResult EXCEPT
                             !.groups = performStandardAnalysis(text, settings).groups,
                             !.stats = performStandardAnalysis(text, settings).stats]
            /\ outcome' = outcome
            /\ pc' = "hh_internal"
    /\ UNCHANGED hipHopFrame

\* line 312
DetectInternalRhymes ==
    /\ pc = "hh_internal"
    /\ IF detectInternalRhymesThrows(text)
       THEN outcome' = "threw" /\ pc' = "done" /\ hiphop' = hiphop
       ELSE /\ hiphop' = [hiphop EXCEPT !.internalRhymes = detectInternalRhymes(text)]
            /\ outcome' = outcome
            /\ pc' = "hh_compound"
    /\ UNCHANGED hipHopFrame

\* line 313
DetectCompoundRhymes ==
    /\ pc = "hh_compound"
    /\ IF detectCompoundRhymesThrows(text)
       THEN outcome' = "threw" /\ pc' = "done" /\ hiphop' = hiphop
       ELSE /\ hiphop' = [hiphop EXCEPT !.compoundRhymes = detectCompoundRhymes(text)]
            /\ outcome' = outcome
            /\ pc' = "hh_chains"
    /\ UNCHANGED hipHopFrame

\* line 314: a TypeError of countSyllables rejects the call
DetectMultisyllabicChains ==
    /\ pc = "hh_chains"
    /\ IF detectMultisyllabicChainsThrows(text)
       THEN outcome' = "threw" /\ pc' = "done" /\ hiphop' = hiphop
       ELSE /\ hiphop' = [hiphop EXCEPT
                             !.multisyllabicChains = detectMultisyllabicChains(text)]
            /\ outcome' = outcome
            /\ pc' = "hh_flow"
    /\ UNCHANGED hipHopFrame

\* line 315
AnalyzeFlowPattern ==
    /\ pc = "hh_flow"
    /\ IF analyzeFlowPatternThrows(text)
       THEN outcome' = "threw" /\ pc' = "done" /\ hiphop' = hiphop
       ELSE /\ hiphop' = [hiphop EXCEPT !.flowPatterns = analyzeFlowPattern(text)]
            /\ outcome' = outcome
            /\ pc' = "hh_profile"
    /\ UNCHANGED hipHopFrame

\* lines 316-322: the profile, and the result is returned
GenerateArtistProfile ==
    /\ pc = "hh_profile"
    /\ IF generateArtistProfileThrows(text)
       THEN outcome' = "threw" /\ pc' = "done" /\ hiphop' = hiphop
       ELSE /\ hiphop' = [hiphop EXCEPT !.artistProfile = generateArtistProfile(text)]
            /\ outcome' = "returned"
            /\ pc' = "done"
    /\ UNCHANGED hipHopFrame

NextHipHop ==
    \/ StandardAnalysis
    \/ DetectInternalRhymes
    \/ DetectCompoundRhymes
    \/ DetectMultisyllabicChains
    \/ AnalyzeFlowPattern
    \/ GenerateArtistProfile

SpecHipHop == InitHipHop /\ [][NextHipHop]_vars

\* C10: analyzeText never raises on a text that is not empty, also when
\* detectMultisyllabicChains finds a pair of phrases above 0.7
C10_HipHopTotal == Len(text) > 0 => outcome # "threw"

(* Empty input *)

isBlank(txt) == trim(txt) = ""

Zero == [num |-> 0, den |-> 1]

\* C11: on the empty text and on a text of white space only, analyze does
\* not raise and returns no word, no rhyme group, no assonance group, no
\* internal pair, density 0, multi-syllabic ratio 0, per-line average 0 and
\* the empty scheme
C11_EmptyInput ==
    isBlank(text) =>
        /\ outcome # "threw"
        /\ pc = "done" =>
             /\ outcome = "returned"
             /\ Len(words) = 0
             /\ Len(groups) = 0
             /\ Len(assonanceGroups) = 0
             /\ DOMAIN internalRhymes = {}
             /\ metrics.density = Zero
             /\ metrics.multiRatio = Zero
             /\ metrics.avgPerLine = Zero
             /\ metrics.scheme = ""

\* a returned call on blanks around a line feed
C11_Witness == Returned /\ text = " " \o NL \o " "
(* analyze from its words array on, over words with and without a vowel  *)
(* and a stop word of three letters, on one line or on two                *)

MaxMixedWords == 4

\* three words of one vowel and a stop word of that vowel
StopPool ==
    { [text |-> "last", phones |-> <<"L", "AE", "S", "T">>],
      [text |-> "cast", phones |-> <<"K", "AE", "S", "T">>],
      [text |-> "fact", phones |-> <<"F", "AE", "K", "T">>],
      [text |-> "and",  phones |-> <<"AE", "N", "D">>] }

\* two words with a vowel, a token of consonants, a token without phonemes
VowellessPool ==
    { [text |-> "cast", phones |-> <<"K", "AE", "S", "T">>],
      [text |-> "fact", phones |-> <<"F", "AE", "K", "T">>],
      [text |-> "hmm",  phones |-> <<"HH", "M">>],
      [text |-> "'",    phones |-> <<>>] }

MixedPools == {StopPool, VowellessPool}

\* the words after position brk are on the second line; 0 is no line break
lineAfter(brk, k) == IF brk > 0 /\ k > brk THEN 1 ELSE 0

InitMixed ==
    /\ \E n \in 1..MaxMixedWords :
         \E pool \in MixedPools : \E chosen \in [1..n -> pool], brk \in 0..(n - 1) :
            words = [k \in 1..n |-> poolWord(chosen[k], lineAfter(brk, k))]
    /\ text = ""
    /\ settings = DefaultSettings
    /\ pc = "spans"
    /\ spans = <<>>
    /\ groups = <<>>
    /\ assonanceGroups = <<>>
    /\ wordToGroup = <<>>
    /\ internalRhymes = NoInternal
    /\ metrics = NoMetrics
    /\ outcome = "running"
    /\ call = Idle
    /\ ret = Idle
    /\ hiphop = Idle

SpecMixed == InitMixed /\ [][NextWords]_vars

(* Words without a vowel *)

IsDigit(c) == c \in {"0", "1", "2", "3", "4", "5", "6", "7", "8", "9"}

\* the phoneme without its stress digit, and the digit ("" when none)
vowelCode(p) ==
    IF Len(p) > 0 /\ IsDigit(CharAt(p, Len(p) - 1)) THEN substr(p, 0, Len(p) - 1) ELSE p
stressDigit(p) ==
    IF Len(p) > 0 /\ IsDigit(CharAt(p, Len(p) - 1)) THEN CharAt(p, Len(p) - 1) ELSE ""
isVowelPhoneme(p) == vowelCode(p) \in ARPA_VOWELS

hasVowel(word) == \E k \in 1..Len(word.phones) : isVowelPhoneme(word.phones[k])

\* the word indices of wds that have a vowel
voiced(wds) == {i \in 0..(Len(wds) - 1) : hasVowel(wds[i + 1])}

\* wds without its vowel-less tokens, and the old index of each word kept
RECURSIVE keptIndices(_, _)
keptIndices(wds, i) ==
    IF i >= Len(wds) THEN <<>>
    ELSE (IF hasVowel(wds[i + 1]) THEN <<i>> ELSE <<>>) \o keptIndices(wds, i + 1)
withoutVowelless(wds) ==
    LET kept == keptIndices(wds, 0) IN [k \in 1..Len(kept) |-> wds[kept[k] + 1]]

\* rhyme groups as sets of word indices, through a renumbering of the words
groupSets(sps, grps, old) ==
    {{old[sps[grps[g][m] + 1].wordIndex + 1] : m \in 1..Len(grps[g])} : g \in 1..Len(grps)}
assonanceSets(agrps, old) ==
    {{old[agrps[g][m] + 1] : m \in 1..Len(agrps[g])} : g \in 1..Len(agrps)}

identityOf(wds) == [k \in 1..Len(wds) |-> k - 1]

\* the rhyme groups of the words array without its vowel-less tokens
groupsWithout(wds, st) ==
    LET rest == withoutVowelless(wds)
        sps == buildSpans(rest, 0)
    IN groupSets(sps, rhymeGroups(rest, sps, st), keptIndices(wds, 0))

assonanceWithout(wds, st) ==
    assonanceSets(assonancePass(withoutVowelless(wds), st), keptIndices(wds, 0))

inInternalPair(w) ==
    \E l \in DOMAIN internalRhymes :
        \E k \in 1..Len(internalRhymes[l]) :
            internalRhymes[l][k][1] = w \/ internalRhymes[l][k][2] = w

\* a token without a vowel has no key and is in no group and no pair
vowellessExcluded ==
    \A w \in (0..(Len(words) - 1)) \ voiced(words) :
        /\ ~keysOfWords[w + 1].ok
        /\ w \notin groupedWords(groups)
        /\ \A g \in 1..Len(assonanceGroups) : w \notin SeqSet(assonanceGroups[g])
        /\ ~inInternalPair(w)

\* every word kept is the last of its line with the tokens exactly when it
\* is without them
lineEndsKept(wds) ==
    LET kept == keptIndices(wds, 0)
        rest == withoutVowelless(wds)
    IN \A k \in 1..Len(kept) : isLineEnd(kept[k], wds) = isLineEnd(k - 1, rest)

MaxPhones == 3

\* normalized words: the keys of the exception table and words outside it
WordChoices ==
    DOMAIN CUSTOM_ARPA \cup {"cat", "hat", "www", "w", "constructor", "valueOf"}

\* a consonant, a vowel without a stress digit, and vowels with digits 1, 0
PhoneAlphabet == {"K", "AE", "IY1", "AH0"}

RECURSIVE PhoneSeqsOf(_)
PhoneSeqsOf(k) ==
    IF k = 0 THEN {<<>>}
    ELSE {Append(q, x) : q \in PhoneSeqsOf(k - 1), x \in PhoneAlphabet}

\* the short sequences and the entries of the two exception tables
PhoneChoices ==
    UNION {PhoneSeqsOf(k) : k \in 0..MaxPhones}
        \cup {ENHANCED_CUSTOM_ARPA[w] : w \in DOMAIN ENHANCED_CUSTOM_ARPA}

InitUnits ==
    /\ call \in [op : {"wordToPhones"}, word : WordChoices]
                 \cup [op : {"syllabify"}, phones : PhoneChoices]
    /\ ret = Idle
    /\ pc = "call"
    /\ text = ""
    /\ settings = DefaultSettings
    /\ words = <<>>
    /\ spans = <<>>
    /\ groups = <<>>
    /\ assonanceGroups = <<>>
    /\ wordToGroup = <<>>
    /\ internalRhymes = NoInternal
    /\ metrics = NoMetrics
    /\ outcome = "running"
    /\ hiphop = Idle

\* lines 179-185
CallWordToPhones ==
    /\ pc = "call"
    /\ call.op = "wordToPhones"
    /\ IF wordToPhonesThrows(call.word)
       THEN /\ outcome' = "threw"
            /\ ret' = ret
       ELSE /\ outcome' = "returned"
            /\ ret' = [op |-> "wordToPhones", phones |-> wordToPhones(call.word)]
    /\ pc' = "done"
    /\ UNCHANGED <<text, settings, words, spans, groups, assonanceGroups,
                   wordToGroup, internalRhymes, metrics, call, hiphop>>

\* lines 189-223
CallSyllabify ==
    /\ pc = "call"
    /\ call.op = "syllabify"
    /\ ret' = [op |-> "syllabify",
               syllables |-> syllabify(call.phones).syllables,
               stress |-> syllabify(call.phones).stress]
    /\ outcome' = "returned"
    /\ pc' = "done"
    /\ UNCHANGED <<text, settings, words, spans, groups, assonanceGroups,
                   wordToGroup, internalRhymes, metrics, call, hiphop>>

NextUnits ==
    \/ CallWordToPhones
    \/ CallSyllabify

SpecUnits == InitUnits /\ [][NextUnits]_vars

Converted == pc = "done" /\ call.op = "wordToPhones"
Syllabified == pc = "done" /\ call.op = "syllabify"

\* C14: for a key of the exception table wordToPhones returns the table's
\* sequence, for every other word the result of g2pHeuristic on that word
C14_DictionaryPrecedence ==
    Converted =>
        /\ outcome = "returned"
        /\ ret.phones = IF call.word \in DOMAIN CUSTOM_ARPA
                        THEN CUSTOM_ARPA[call.word]
                        ELSE g2pHeuristic(call.word)

vowelCount(q) == Cardinality({k \in 1..Len(q) : isVowelPhoneme(q[k])})

\* C17: every syllable has exactly one vowel phoneme, there are as many
\* syllables as vowel phonemes, and the consonants before the first vowel
\* are in the first vowel's syllable
C17_SyllableShape ==
    Syllabified =>
        /\ \A k \in 1..Len(ret.syllables) : vowelCount(ret.syllables[k]) = 1
        /\ Len(ret.syllables) = vowelCount(call.phones)
        /\ flatten(ret.syllables) = call.phones

\* the index of the syllable that holds position p (from 1) of the phonemes
RECURSIVE syllableOf(_, _)
syllableOf(syllables, p) ==
    IF Len(syllables) = 0 \/ p <= Len(Head(syllables)) THEN 0
    ELSE 1 + syllableOf(Tail(syllables), p - Len(Head(syllables)))

primaryStressed(q) ==
    {k \in 1..Len(q) : isVowelPhoneme(q[k]) /\ stressDigit(q[k]) = "1"}

\* C18: the stress index is the index of the syllable with the first vowel
\* of stress digit 1, the index of the last syllable when no vowel has
\* digit 1, and null with no syllable for the empty sequence
C18_StressIndex ==
    Syllabified =>
        IF Len(call.phones) = 0
        THEN ret.syllables = <<>> /\ ret.stress = NULL
        ELSE IF primaryStressed(call.phones) # {}
        THEN LET first == CHOOSE k \in primaryStressed(call.phones) :
                              \A q \in primaryStressed(call.phones) : k <= q
             IN ret.stress = syllableOf(ret.syllables, first)
        ELSE ret.stress = Len(ret.syllables) - 1
(* analyze called three times on one analyzer: a text under some settings, *)
(* another text under other settings, and the first text under the first   *)
(* settings again                                                          *)

TwiceTexts ==
    {"", "cat", "Www", "cat hat", "Www" \o LINE_SEPARATOR \o "cat", "constructor"}

TwiceSettings ==
    {DefaultSettings,
     [perfectThreshold |-> 1000, slantThreshold |-> 5000,
      highlightAssonance |-> FALSE, showInternalRhymes |-> FALSE]}

\* what analyze returns (lines 693-718), and whether it returned
resultOf ==
    [words |-> words, spans |-> spans, groups |-> groups,
     assonanceGroups |-> assonanceGroups, internalRhymes |-> internalRhymes,
     wordToGroup |-> wordToGroup, metrics |-> metrics, outcome |-> outcome]

InitTwice ==
    /\ \E t1, t2 \in TwiceTexts, s1, s2 \in TwiceSettings :
         /\ call = [op |-> "analyze", round |-> 1,
                    first |-> [text |-> t1, settings |-> s1],
                    between |-> [text |-> t2, settings |-> s2]]
         /\ text = t1
         /\ settings = s1
    /\ pc = "extract"
    /\ words = <<>>
    /\ spans = <<>>
    /\ groups = <<>>
    /\ assonanceGroups = <<>>
    /\ wordToGroup = <<>>
    /\ internalRhymes = NoInternal
    /\ metrics = NoMetrics
    /\ outcome = "running"
    /\ ret = Idle
    /\ hiphop = Idle

\* the caller keeps the first result, may change the settings, and calls
\* analyze again: line 462, with the locals of lines 463-464 new
CallAgain ==
    /\ pc = "done"
    /\ call.op = "analyze"
    /\ call.round < 3
    /\ ret' = IF call.round = 1 THEN resultOf ELSE ret
    /\ call' = [call EXCEPT !.round = call.round + 1]
    /\ text' = IF call.round = 1 THEN call.between.text ELSE call.first.text
    /\ settings' = IF call.round = 1 THEN call.between.settings
                   ELSE call.first.settings
    /\ pc' = "extract"
    /\ words' = <<>>
    /\ spans' = <<>>
    /\ groups' = <<>>
    /\ assonanceGroups' = <<>>
    /\ wordToGroup' = <<>>
    /\ internalRhymes' = NoInternal
    /\ metrics' = NoMetrics
    /\ outcome' = "running"
    /\ UNCHANGED hiphop

NextTwice ==
    \/ Next
    \/ CallAgain

SpecTwice == InitTwice /\ [][NextTwice]_vars

ThirdDone == pc = "done" /\ call.op = "analyze" /\ call.round = 3

isSeed(i) == \A g \in 1..Len(groups) : \A m \in 2..Len(groups[g]) : groups[g][m] # i

\* span j is still unassigned when the outer loop is at seed i
unassignedAt(i, j) ==
    \A g \in 1..Len(groups) : groups[g][1] < i => j \notin SeqSet(groups[g])

inGroupOf(i, j) ==
    \E g \in 1..Len(groups) : groups[g][1] = i /\ j \in SeqSet(groups[g])

\* the word of span i is the last word of its line
lineFinal(i) ==
    spans[i + 1].wordIndex = lastWordOnLine(words, words[spans[i + 1].wordIndex + 1].line)

differentText(i, j) ==
    words[spans[i + 1].wordIndex + 1].lower # words[spans[j + 1].wordIndex + 1].lower

\* twice T: perfect for two line-final words, the midpoint for one, slant
\* for none
positionThreshold2(i, j) ==
    IF lineFinal(i) /\ lineFinal(j) THEN 2 * settings.perfectThreshold
    ELSE IF lineFinal(i) # lineFinal(j)
    THEN settings.perfectThreshold + settings.slantThreshold
    ELSE 2 * settings.slantThreshold

withinPosition(i, j) ==
    2 * rhymeDistance(spans[i + 1].key, spans[j + 1].key) <= positionThreshold2(i, j)

\* the pairs (seed, later unassigned word) that the pass compares
comparedPairs ==
    {p \in (0..(Len(spans) - 1)) \X (0..(Len(spans) - 1)) :
        /\ p[1] < p[2]
        /\ isSeed(p[1])
        /\ unassignedAt(p[1], p[2])
        /\ differentText(p[1], p[2])}

\* C16: a later unassigned word of different text and without an equal
\* multi-syllable key joins the seed exactly when their rhymeDistance is at
\* most the threshold of their positions
C16_PositionThreshold ==
    JustGrouped =>
        \A p \in comparedPairs :
            ~multiMatch(spans, p[1], p[2]) =>
                (inGroupOf(p[1], p[2]) <=> withinPosition(p[1], p[2]))

\* a pair joined under the midpoint that the perfect threshold refuses, and
\* a pair of line-final words refused that the midpoint would join
C16_Witness ==
    /\ JustGrouped
    /\ \E p \in comparedPairs :
         /\ ~multiMatch(spans, p[1], p[2])
         /\ lineFinal(p[1]) # lineFinal(p[2])
         /\ inGroupOf(p[1], p[2])
         /\ rhymeDistance(spans[p[1] + 1].key, spans[p[2] + 1].key)
                > settings.perfectThreshold
    /\ \E p \in comparedPairs :
         /\ lineFinal(p[1]) /\ lineFinal(p[2])
         /\ ~inGroupOf(p[1], p[2])
         /\ 2 * rhymeDistance(spans[p[1] + 1].key, spans[p[2] + 1].key)
                <= settings.perfectThreshold + settings.slantThreshold

\* C19: in every rhyme group the members are in ascending order from the
\* seed, each member matches the seed by a multi-syllable key or within the
\* position threshold, every word is in the group of the earliest seed it
\* matches, and no span is in two groups
C19_Greedy ==
    JustGrouped =>
        /\ \A g \in 1..Len(groups) :
             /\ \A m \in 1..(Len(groups[g]) - 1) : groups[g][m] < groups[g][m + 1]
             /\ \A m \in 2..Len(groups[g]) :
                  /\ isSeed(groups[g][1])
                  /\ \/ multiMatch(spans, groups[g][1], groups[g][m])
                     \/ withinPosition(groups[g][1], groups[g][m])
        /\ \A p \in comparedPairs :
             (multiMatch(spans, p[1], p[2]) \/ withinPosition(p[1], p[2]))
                 => inGroupOf(p[1], p[2])
        /\ \A g, h \in 1..Len(groups) :
             g # h => SeqSet(groups[g]) \cap SeqSet(groups[h]) = {}

\* an earlier seed claims a word that also matches a later seed, and the
\* later seed forms a group without it
C19_Witness ==
    /\ JustGrouped
    /\ Len(groups) >= 2
    /\ \E m \in 2..Len(groups[1]) :
         /\ groups[1][m] > groups[2][1]
         /\ differentText(groups[2][1], groups[1][m])
         /\ withinPosition(groups[2][1], groups[1][m])
(* analyze from its words array on, over words of several syllables, with *)
(* the default thresholds or with both sliders at 0                        *)

MaxMultiWords == 3

MultiPool ==
    { [text |-> "nation",   phones |-> <<"N", "EY", "SH", "AH", "N">>],
      [text |-> "station",  phones |-> <<"S", "T", "EY", "SH", "AH", "N">>],
      [text |-> "motion",   phones |-> <<"M", "OW", "SH", "AH", "N">>],
      [text |-> "elation",  phones |-> <<"IH", "L", "EY", "SH", "AH", "N">>],
      [text |-> "relation", phones |-> <<"R", "IH", "L", "EY", "SH", "AH", "N">>] }

MultiSettings ==
    {DefaultSettings,
     [DefaultSettings EXCEPT !.perfectThreshold = 0, !.slantThreshold = 0]}

InitMulti ==
    /\ \E n \in 1..MaxMultiWords :
         \E chosen \in [1..n -> MultiPool], breaks \in [1..n -> BOOLEAN] :
            /\ ~breaks[1]
            /\ words = [k \in 1..n |-> poolWord(chosen[k], lineOf(breaks, k))]
    /\ text = ""
    /\ settings \in MultiSettings
    /\ pc = "spans"
    /\ spans = <<>>
    /\ groups = <<>>
    /\ assonanceGroups = <<>>
    /\ wordToGroup = <<>>
    /\ internalRhymes = NoInternal
    /\ metrics = NoMetrics
    /\ outcome = "running"
    /\ call = Idle
    /\ ret = Idle
    /\ hiphop = Idle

SpecMulti == InitMulti /\ [][NextWords]_vars

\* both spans have a key of the last t syllables and the two are equal
equalTail(i, j, t) ==
    /\ spans[i + 1].multiKeys[t] # ""
    /\ spans[i + 1].multiKeys[t] = spans[j + 1].multiKeys[t]

MaxSyllables == 3

\* syllables as syllabify builds them (a vowel, then consonants; a leading
\* run of consonants), and syllables that begin with consonants, which the
\* method accepts as well; the vowels carry no stress digit
SyllablePool ==
    { <<"AE">>, <<"AE", "T">>, <<"IY", "N", "D">>, <<"OW", "Z">>,
      <<"AH", "HH">>, <<"SH">>, <<"SH", "AE", "T">>, <<"M", "IY">> }

RECURSIVE SyllableListsOf(_)
SyllableListsOf(k) ==
    IF k = 0 THEN {<<>>}
    ELSE {Append(q, x) : q \in SyllableListsOf(k - 1), x \in SyllablePool}

SyllableChoices == UNION {SyllableListsOf(k) : k \in 0..MaxSyllables}

\* null, the indices of the list, and the index past its end
StressChoices(syllables) == {NULL} \cup (0..Len(syllables))

Keyed == pc = "done" /\ call.op = "getRhymeKey"

\* position of the vowel of a syllable, 0 when it has none
vowelAt(syllable) ==
    LET at == {k \in 1..Len(syllable) : syllable[k] \in ARPA_VOWELS}
    IN IF at = {} THEN 0 ELSE CHOOSE k \in at : \A q \in at : k <= q

nucleusLabel(syllable) ==
    IF vowelAt(syllable) = 0 THEN "" ELSE VOWEL_CLASSES[syllable[vowelAt(syllable)]]

codaAfter(syllable) ==
    IF vowelAt(syllable) = 0 THEN <<>>
    ELSE SubSeq(syllable, vowelAt(syllable) + 1, Len(syllable))

onsetBefore(syllable) ==
    IF vowelAt(syllable) = 0 THEN {}
    ELSE {syllable[k] : k \in 1..(vowelAt(syllable) - 1)}

\* the clamped target index of the call
targetIndex ==
    LET last == Len(call.syllables) - 1
        index == IF call.stressIndex # NULL THEN call.stressIndex ELSE last
    IN IF index < 0 THEN 0 ELSE IF index > last THEN last ELSE index

targetSyllable == call.syllables[targetIndex + 1]
previousSyllable == call.syllables[targetIndex]

absorbs == targetIndex > 0 /\ Len(codaAfter(targetSyllable)) <= 1

\* C21: with t the clamped target index and (n, c) the nucleus label and
\* coda of syllable t, the key is (p + "+" + n, normalize(pc ++ c)) when
\* t > 0 and c has at most one consonant, (p, pc) being the label and coda
\* of syllable t-1 and the nucleus staying n when syllable t-1 has no vowel;
\* otherwise the key is (n, normalize(c)); there is no key without a
\* nucleus; no consonant before the vowel of syllable t is in the key's coda
C21_Absorption ==
    Keyed /\ Len(call.syllables) > 0 =>
        LET n == nucleusLabel(targetSyllable)
            c == codaAfter(targetSyllable)
            p == nucleusLabel(previousSyllable)
            pcoda == codaAfter(previousSyllable)
            label == IF absorbs /\ p # "" THEN p \o "+" \o n ELSE n
            coda == IF absorbs THEN pcoda \o c ELSE c
        IN /\ ret.key.ok <=> label # ""
           /\ ret.key.ok =>
                 /\ ret.key.n = label
                 /\ ret.key.c = normalizeCoda(coda)
                 /\ \A x \in onsetBefore(targetSyllable) :
                       \A k \in 1..Len(ret.key.c) : ret.key.c[k] # x

\* a target with an onset and a single coda consonant absorbs the syllable
\* before it, whose own coda is folded into the key
C21_Witness ==
    /\ Keyed
    /\ Len(call.syllables) = 3
    /\ call.stressIndex = 1
    /\ targetSyllable = <<"SH", "AE", "T">>
    /\ previousSyllable = <<"IY", "N", "D">>
    /\ ret.key = [ok |-> TRUE, n |-> "EE+A", c |-> <<"N", "T", "T">>]

(* The distances against their definition *)

\* the four vowel families
VowelFamilies ==
    { {"EE", "I", "E"}, {"A", "AH", "ER", "UH"},
      {"O", "OR", "OO", "U"}, {"EYE", "OW", "OY", "AY"} }

sameFamily(a, b) == \E family \in VowelFamilies : a \in family /\ b \in family

\* the element of a label after its last separator
trailingElement(n) ==
    LET plus == {i \in 1..Len(n) : SubSeq(n, i, i) = "+"}
        from == IF plus = {} THEN 0 ELSE CHOOSE i \in plus : \A q \in plus : q <= i
    IN SubSeq(n, from + 1, Len(n))

\* labels as getRhymeKey builds them from a syllabified word: no label
\* ends in the separator
wellFormed(n) == trailingElement(n) # ""

\* in units of 1/1000
referenceNucleus(n1, n2) ==
    IF n1 = n2 THEN 0
    ELSE IF trailingElement(n1) = trailingElement(n2) THEN 50
    ELSE IF sameFamily(trailingElement(n1), trailingElement(n2)) THEN 250
    ELSE 600

equivalentPair(a, b) ==
    \E k \in 1..Len(CONSONANT_PAIRS) : {a, b} = {CONSONANT_PAIRS[k][1], CONSONANT_PAIRS[k][2]}

\* end-aligned positions whose consonants neither agree nor are equivalent
mismatchedPositions(c1, c2) ==
    {i \in 1..Min(Len(c1), Len(c2)) :
        LET a == c1[Len(c1) + 1 - i]
            b == c2[Len(c2) + 1 - i]
        IN a # b /\ ~equivalentPair(a, b)}

\* in units of 1/1000: 0.35 * (m + 0.5 * d) = (350 * m + 175 * d) / 1000
referenceCoda(c1, c2) ==
    IF c1 = c2 THEN 0
    ELSE IF (Len(c1) = 0) # (Len(c2) = 0) THEN 600
    ELSE LET d == IF Len(c1) >= Len(c2) THEN Len(c1) - Len(c2) ELSE Len(c2) - Len(c1)
             total == 350 * Cardinality(mismatchedPositions(c1, c2)) + 175 * d
         IN IF total > 1000 THEN 1000 ELSE total

PLUGIN_CUSTOM_ARPA ==
    [w \in {"ya", "gonna", "wanna", "ain't", "bruh", "nah", "yo", "playin'",
            "playin", "puttin'", "puttin", "messin'", "messin", "comin'",
            "comin", "swimmin'", "swimmin", "sittin'", "sittin"} |->
        CASE w = "ya"    -> <<"Y", "AA1">>
          [] w = "gonna" -> <<"G", "AH1", "N", "AH0">>
          [] w = "wanna" -> <<"W", "AA1", "N", "AH0">>
          [] w = "ain't" -> <<"EY1", "N", "T">>
          [] w = "bruh"  -> <<"B", "R", "AH1">>
          [] w = "nah"   -> <<"N", "AA1">>
          [] w = "yo"    -> <<"Y", "OW1">>
          [] w \in {"playin'", "playin"}   -> <<"P", "L", "EY1", "IH0", "N">>
          [] w \in {"puttin'", "puttin"}   -> <<"P", "UH1", "T", "IH0", "N">>
          [] w \in {"messin'", "messin"}   -> <<"M", "EH1", "S", "IH0", "N">>
          [] w \in {"comin'", "comin"}     -> <<"K", "AH1", "M", "IH0", "N">>
          [] w \in {"swimmin'", "swimmin"} -> <<"S", "W", "IH1", "M", "IH0", "N">>
          [] w \in {"sittin'", "sittin"}   -> <<"S", "IH1", "T", "IH0", "N">>]

\* the consonantMap of wordToPhones: no entry for q and x
pluginConsonantMap ==
    [c \in DOMAIN CONSONANT_MAP \ {"q", "x"} |-> CONSONANT_MAP[c]]

pluginVowelOf(ch) ==
    CASE ch = "a" -> "AE" [] ch = "e" -> "EH" [] ch = "i" -> "IH"
      [] ch = "o" -> "AO" [] ch = "u" -> "AH" [] OTHER -> "IH"

RECURSIVE pluginScan(_, _, _, _)
pluginScan(cleaned, i, phones, stressed) ==
    IF i >= Len(cleaned) THEN phones
    ELSE LET ch == SubSeq(cleaned, i + 1, i + 1)
         IN IF ch \in {"a", "e", "i", "o", "u", "y"}
            THEN pluginScan(cleaned, i + 1,
                     Append(phones, pluginVowelOf(ch) \o (IF ~stressed THEN "1" ELSE "0")),
                     TRUE)
            ELSE IF ch \in DOMAIN pluginConsonantMap
            THEN pluginScan(cleaned, i + 1, Append(phones, pluginConsonantMap[ch]), stressed)
            ELSE pluginScan(cleaned, i + 1, phones, stressed)

\* /[^\w']/g : letters, digits, the underscore and the apostrophe are kept
pluginWordToPhones(word) ==
    LET cleaned == KeepChars(toLowerCase(word),
                       {SubSeq(LOWER, i, i) : i \in 1..26}
                           \cup {"0", "1", "2", "3", "4", "5", "6", "7", "8", "9", "_", "'"})
    IN IF cleaned \in DOMAIN PLUGIN_CUSTOM_ARPA THEN PLUGIN_CUSTOM_ARPA[cleaned]
       ELSE pluginScan(cleaned, 0, <<>>, FALSE)

\* p.replace(/[0-2]$/, '')
stripStress(p) ==
    IF Len(p) > 0 /\ SubSeq(p, Len(p), Len(p)) \in {"0", "1", "2"}
    THEN SubSeq(p, 1, Len(p) - 1) ELSE p

\* from the last vowel to the end, the last two phonemes without a vowel
getRhymeTail(phones) ==
    LET at == {i \in 1..Len(phones) : stripStress(phones[i]) \in ARPA_VOWELS}
    IN IF at # {}
       THEN SubSeq(phones, CHOOSE i \in at : \A q \in at : q <= i, Len(phones))
       ELSE SubSeq(phones, Max(1, Len(phones) - 1), Len(phones))

\* VOWEL_CLASSES[p], "undefined" for a phoneme that is no key of the table
classOrUndefined(p) == IF p \in DOMAIN VOWEL_CLASSES THEN VOWEL_CLASSES[p] ELSE "undefined"

\* what offset i adds to the score, in units of 1/120
awardAt(tail1, tail2, i) ==
    LET p1 == stripStress(tail1[Len(tail1) - i])
        p2 == stripStress(tail2[Len(tail2) - i])
    IN IF p1 = p2 THEN 120 \div (i + 1)
       ELSE IF classOrUndefined(p1) = classOrUndefined(p2) THEN 60 \div (i + 1)
       ELSE 0

\* in units of 1/120, exact for offsets 0..5: 1.0 is 120 and 0.95 is 114
scoreRhyme(tail1, tail2) ==
    IF Len(tail1) = 0 \/ Len(tail2) = 0 THEN 0
    ELSE IF join(tail1, " ") = join(tail2, " ") THEN 120
    ELSE LET minLen == Min(Len(tail1), Len(tail2))
         IN Min(114, sumSeq([k \in 1..minLen |-> awardAt(tail1, tail2, k - 1)]))

\* words as analyzeText of the view matches them: runs of letters
PluginVocabulary ==
    {"cat", "hat", "cab", "Cat", "kit", "cast", "at", "a", "st", "x", "playin", "bitten"}

\* tokens of letters and apostrophes
TokenChoices == {"Cat", "cat", "hat", "don't", "WOW", "wow", "w"}

\* the vowel codes with each stress digit and without one, and consonants
PhonemeChoices ==
    {v \o d : v \in ARPA_VOWELS, d \in {"", "0", "1", "2"}} \cup {"K", "T", "HH", "NG"}

\* words for the letter-to-sound rules
G2pWords ==
    {"", "cat", "tree", "banana", "bitter", "aaah", "noooooo", "skiing", "www",
     "w'w", "rhythm", "pst", "eight", "Idea"}

InitCalls ==
    /\ \/ \E syllables \in SyllableChoices : \E stressIndex \in StressChoices(syllables) :
             call = [op |-> "getRhymeKey", syllables |-> syllables,
                     stressIndex |-> stressIndex]
       \/ call \in [op : {"cleanWord"}, word : TokenChoices, other : TokenChoices]
       \/ call \in [op : {"normalizePhone"}, phone : PhonemeChoices]
       \/ call \in [op : {"g2pHeuristic"}, word : G2pWords]
       \/ call \in [op : {"scoreRhyme"}, word1 : PluginVocabulary, word2 : PluginVocabulary]
    /\ ret = Idle
    /\ pc = "call"
    /\ text = ""
    /\ settings = DefaultSettings
    /\ words = <<>>
    /\ spans = <<>>
    /\ groups = <<>>
    /\ assonanceGroups = <<>>
    /\ wordToGroup = <<>>
    /\ internalRhymes = NoInternal
    /\ metrics = NoMetrics
    /\ outcome = "running"
    /\ hiphop = Idle

\* lines 267-311
CallGetRhymeKey ==
    /\ pc = "call"
    /\ call.op = "getRhymeKey"
    /\ ret' = [op |-> "getRhymeKey",
               key |-> getRhymeKey(call.syllables, call.stressIndex)]
    /\ outcome' = "returned"
    /\ pc' = "done"
    /\ UNCHANGED <<text, settings, words, spans, groups, assonanceGroups,
                   wordToGroup, internalRhymes, metrics, call, hiphop>>

\* main.js lines 106-108 and main-hiphop.js lines 108-110, on two tokens
CallCleanWord ==
    /\ pc = "call"
    /\ call.op = "cleanWord"
    /\ ret' = [op |-> "cleanWord", cleaned |-> cleanWord(call.word),
               cleanedOther |-> cleanWord(call.other)]
    /\ outcome' = "returned"
    /\ pc' = "done"
    /\ UNCHANGED <<text, settings, words, spans, groups, assonanceGroups,
                   wordToGroup, internalRhymes, metrics, call, hiphop>>

\* lines 226-228
CallNormalizePhone ==
    /\ pc = "call"
    /\ call.op = "normalizePhone"
    /\ ret' = [op |-> "normalizePhone", base |-> normalizePhone(call.phone)]
    /\ outcome' = "returned"
    /\ pc' = "done"
    /\ UNCHANGED <<text, settings, words, spans, groups, assonanceGroups,
                   wordToGroup, internalRhymes, metrics, call, hiphop>>

\* lines 112-176; filtered is the list before the duplicates are collapsed
CallG2pHeuristic ==
    /\ pc = "call"
    /\ call.op = "g2pHeuristic"
    /\ ret' = [op |-> "g2pHeuristic",
               filtered |-> g2pScan(toLowerCase(call.word), 0, <<>>, FALSE),
               phones |-> g2pHeuristic(call.word)]
    /\ outcome' = "returned"
    /\ pc' = "done"
    /\ UNCHANGED <<text, settings, words, spans, groups, assonanceGroups,
                   wordToGroup, internalRhymes, metrics, call, hiphop>>

\* part_000 lines 85-107, on the tails of two words (lines 124-131, 152)
CallScoreRhyme ==
    /\ pc = "call"
    /\ call.op = "scoreRhyme"
    /\ LET tail1 == getRhymeTail(pluginWordToPhones(call.word1))
           tail2 == getRhymeTail(pluginWordToPhones(call.word2))
       IN ret' = [op |-> "scoreRhyme", tail1 |-> tail1, tail2 |-> tail2,
                  score |-> scoreRhyme(tail1, tail2)]
    /\ outcome' = "returned"
    /\ pc' = "done"
    /\ UNCHANGED <<text, settings, words, spans, groups, assonanceGroups,
                   wordToGroup, internalRhymes, metrics, call, hiphop>>

NextCalls ==
    \/ CallGetRhymeKey
    \/ CallCleanWord
    \/ CallNormalizePhone
    \/ CallG2pHeuristic
    \/ CallScoreRhyme

SpecCalls == InitCalls /\ [][NextCalls]_vars

Cleaned == pc = "done" /\ call.op = "cleanWord"
Normalized == pc = "done" /\ call.op = "normalizePhone"
Spelled == pc = "done" /\ call.op = "g2pHeuristic"
Scored == pc = "done" /\ call.op = "scoreRhyme"

\* C23: scoreRhyme returns a value in [0, 0.95] for every pair of tails,
\* two equal non-empty tails included, and 0 when a tail is empty
C23_ScoreCap ==
    Scored => /\ 0 <= ret.score /\ ret.score <= 114
              /\ (Len(ret.tail1) = 0 \/ Len(ret.tail2) = 0) => ret.score = 0

\* the award of the positional rule as stated: the full share for equal
\* phonemes, half of it for two different vowels of one class, else nothing
statedAward(tail1, tail2, i) ==
    LET p1 == stripStress(tail1[Len(tail1) - i])
        p2 == stripStress(tail2[Len(tail2) - i])
    IN IF p1 = p2 THEN 120 \div (i + 1)
       ELSE IF /\ p1 \in ARPA_VOWELS /\ p2 \in ARPA_VOWELS
               /\ VOWEL_CLASSES[p1] = VOWEL_CLASSES[p2] THEN 60 \div (i + 1)
       ELSE 0

\* C24: at end-aligned offset i the score grows by 1/(i+1) for equal
\* stress-stripped phonemes, by 0.5/(i+1) only for two different vowels of
\* one vowel class, and by nothing otherwise (two different consonants, a
\* vowel against a consonant)
C24_Awards ==
    Scored /\ Len(ret.tail1) > 0 /\ Len(ret.tail2) > 0 /\ ret.tail1 # ret.tail2 =>
        ret.score = Min(114, sumSeq([k \in 1..Min(Len(ret.tail1), Len(ret.tail2)) |->
                                        statedAward(ret.tail1, ret.tail2, k - 1)]))

(* analyze from its words array on, with the internal rhymes switched on *)
(* or off                                                               *)

MaxInternalWords == 3

\* the pool of rhyming words and a word without a vowel
InternalPool == WordPool \cup {[text |-> "'", phones |-> <<>>]}

InternalSettings ==
    {[st EXCEPT !.showInternalRhymes = b] : st \in PoolSettings, b \in BOOLEAN}

InitInternal ==
    /\ \E n \in 1..MaxInternalWords :
         \E chosen \in [1..n -> InternalPool], breaks \in [1..n -> BOOLEAN] :
            /\ ~breaks[1]
            /\ words = [k \in 1..n |-> poolWord(chosen[k], lineOf(breaks, k))]
    /\ text = ""
    /\ settings \in InternalSettings
    /\ pc = "spans"
    /\ spans = <<>>
    /\ groups = <<>>
    /\ assonanceGroups = <<>>
    /\ wordToGroup = <<>>
    /\ internalRhymes = NoInternal
    /\ metrics = NoMetrics
    /\ outcome = "running"
    /\ call = Idle
    /\ ret = Idle
    /\ hiphop = Idle

SpecInternal == InitInternal /\ [][NextWords]_vars

\* the pairs (a, b) of line l that the claim describes
statedPairs(l) ==
    {<<a, b>> \in (0..(Len(words) - 1)) \X (0..(Len(words) - 1)) :
        /\ a < b
        /\ words[a + 1].line = l /\ words[b + 1].line = l
        /\ words[a + 1].lower # words[b + 1].lower
        /\ \E s1 \in 1..Len(spans), s2 \in 1..Len(spans) :
              /\ spans[s1].wordIndex = a /\ spans[s2].wordIndex = b
              /\ rhymeDistance(spans[s1].key, spans[s2].key) <= settings.slantThreshold}

inSomeGroup(w) ==
    \E g \in 1..Len(groups) : \E k \in 1..Len(groups[g]) :
        spans[groups[g][k] + 1].wordIndex = w

\* C25: with internal rhymes enabled the pairs recorded for a line are
\* exactly the pairs (a, b), a < b, of words of that line with different
\* normalized text, a rhyme key each and rhymeDistance <= slantThreshold,
\* grouped or not; a line without such a pair has no entry; with the option
\* disabled the map is empty
C25_InternalPairs ==
    Returned =>
        IF settings.showInternalRhymes
        THEN /\ \A l \in DOMAIN internalRhymes :
                  /\ Len(internalRhymes[l]) > 0
                  /\ {internalRhymes[l][k] : k \in 1..Len(internalRhymes[l])} = statedPairs(l)
                  /\ Cardinality(statedPairs(l)) = Len(internalRhymes[l])
             /\ \A l \in 0..(Len(words) - 1) :
                  statedPairs(l) # {} => l \in DOMAIN internalRhymes
        ELSE DOMAIN internalRhymes = {}

\* a recorded pair of two words that are in no rhyme group, on a text with
\* a second line that has no entry
C25_Witness ==
    /\ Returned
    /\ settings.showInternalRhymes
    /\ 0 \in DOMAIN internalRhymes
    /\ \E k \in 1..Len(internalRhymes[0]) :
          /\ ~inSomeGroup(internalRhymes[0][k][1])
          /\ ~inSomeGroup(internalRhymes[0][k][2])
    /\ \E k \in 1..Len(words) : words[k].line = 1
    /\ 1 \notin DOMAIN internalRhymes

\* C26: for a token of letters and apostrophes cleanWord returns the token
\* in lower case with every letter and apostrophe kept, so two tokens get
\* the same form exactly when they differ in letter case only
C26_Normalized ==
    Cleaned =>
        /\ ret.cleaned = toLowerCase(call.word)
        /\ (ret.cleaned = ret.cleanedOther)
              <=> (toLowerCase(call.word) = toLowerCase(call.other))

\* C27: normalizePhone takes the stress digit 0, 1 or 2 off a vowel code
\* and leaves a phoneme without a digit as it is, so the result for a
\* stress-marked vowel is a member of the vowel set
C27_StressStripped ==
    Normalized =>
        /\ ret.base = vowelCode(call.phone)
        /\ isVowelPhoneme(call.phone) => ret.base \in ARPA_VOWELS

\* the vowel phonemes of a list, in order
vowelsOf(q) == SelectSeq(q, isVowelPhoneme)

\* C28: in the output of g2pHeuristic the first vowel phoneme has stress
\* digit 1 and every later one digit 0, and the collapsing of duplicates
\* removes no vowel phoneme
C28_G2pStress ==
    Spelled =>
        /\ \A k \in 1..Len(vowelsOf(ret.phones)) :
              stressDigit(vowelsOf(ret.phones)[k]) = (IF k = 1 THEN "1" ELSE "0")
        /\ vowelsOf(ret.phones) = vowelsOf(ret.filtered)

(* HipHopRhymeAnalyzer.detectMosaicRhymes (src/unnamed/part_001) *)

MAX_LINES == 100
SEARCH_RADIUS == 3
MAX_MOSAIC_RESULTS == 20

\* lines.splice(MAX_LINES) left out
allLines(lines) == lines

\* the lines that are scanned
firstLines(lines) ==
    IF Len(lines) > MAX_LINES THEN SubSeq(lines, 1, MAX_LINES) ELSE lines

\* one entry of lineData, key "" where the code returns null; baseAnalyzer
\* is the EnhancedRhymeAnalyzer that constructs this analyzer
mosaicWordData(word) ==
    LET key == KeepChars(toLowerCase(word), {SubSeq(LOWER, i, i) : i \in 1..26} \cup {"'"})
    IN [word |-> word, key |-> key,
        phonetics |-> IF key = "" THEN <<>> ELSE enhancedWordToPhones(key)]

RECURSIVE lineDataLoop(_)
lineDataLoop(ws) ==
    IF Len(ws) = 0 THEN <<>>
    ELSE (IF Len(Head(ws)) > 0 /\ mosaicWordData(Head(ws)).key # ""
          THEN << mosaicWordData(Head(ws)) >> ELSE <<>>)
         \o lineDataLoop(Tail(ws))

lineDataOf(line) == lineDataLoop(splitWs(line))

\* twice the matchCount of the suffix comparison: 2 for equal phonemes, 1
\* for similar ones, and the loop ends at the first other pair
RECURSIVE mosaicMatchLoop(_, _, _, _, _)
mosaicMatchLoop(phonemes1, phonemes2, i, checkLength, match2) ==
    IF i > checkLength THEN match2
    ELSE LET p1 == normalizePhone(phonemes1[Len(phonemes1) + 1 - i])
             p2 == normalizePhone(phonemes2[Len(phonemes2) + 1 - i])
         IN IF p1 = p2
            THEN mosaicMatchLoop(phonemes1, phonemes2, i + 1, checkLength, match2 + 2)
            ELSE IF arePhonemesSimilar(p1, p2)
            THEN mosaicMatchLoop(phonemes1, phonemes2, i + 1, checkLength, match2 + 1)
            ELSE match2

NoMosaicMatch == [ok |-> FALSE, similarity |-> [num |-> 0, den |-> 1]]

\* similarity is the exact fraction matchCount / checkLength
analyzeMosaicRhymeOptimized(phonemes1, phonemes2) ==
    IF Len(phonemes1) = 0 \/ Len(phonemes2) = 0 THEN NoMosaicMatch
    ELSE IF Min(Len(phonemes1), Len(phonemes2)) < 2 THEN NoMosaicMatch
    ELSE LET checkLength == Min(Min(Len(phonemes1), Len(phonemes2)), 6)
             match2 == mosaicMatchLoop(phonemes1, phonemes2, 1, checkLength, 0)
         IN IF 10 * match2 >= 8 * checkLength /\ match2 >= 4
            THEN [ok |-> TRUE, similarity |-> [num |-> match2, den |-> 2 * checkLength]]
            ELSE NoMosaicMatch

\* the entry of word a of line i against the phrase at l of line k, if any
singleToPhraseAt(lineData, i, wordData, k, l) ==
    LET mosaicMatch == analyzeMosaicRhymeOptimized(wordData.phonetics,
                           lineData[k + 1][l + 1].phonetics \o lineData[k + 1][l + 2].phonetics)
    IN IF mosaicMatch.ok /\ 2 * mosaicMatch.similarity.num > mosaicMatch.similarity.den
       THEN << [type |-> "single-to-phrase", line1 |-> i, line2 |-> k,
                first |-> wordData.word,
                second |-> lineData[k + 1][l + 1].word \o " " \o lineData[k + 1][l + 2].word,
                similarity |-> mosaicMatch.similarity] >>
       ELSE <<>>

isSignificant(wordData) == Len(wordData.word) >= 4

singleToPhrase(lineData, i) ==
    LET significantWords == SelectSeq(lineData[i + 1], isSignificant)
        searchStart == Max(0, i - SEARCH_RADIUS)
        searchEnd == Min(i + SEARCH_RADIUS, Len(lineData) - 1)
    IN flatten([a \in 1..Len(significantWords) |->
           flatten([kk \in 1..(searchEnd - searchStart + 1) |->
               IF searchStart + kk - 1 = i THEN <<>>
               ELSE flatten([ll \in 1..(Len(lineData[searchStart + kk]) - 1) |->
                        singleToPhraseAt(lineData, i, significantWords[a],
                                         searchStart + kk - 1, ll - 1)])])])

\* the first two words of line i against the first two of line i + 1
phraseToPhrase(lineData, i) ==
    IF Len(lineData[i + 1]) >= 2 /\ i + 1 < Min(i + 2, Len(lineData))
          /\ Len(lineData[i + 2]) >= 2
    THEN LET mosaicMatch == analyzeMosaicRhymeOptimized(
                 lineData[i + 1][1].phonetics \o lineData[i + 1][2].phonetics,
                 lineData[i + 2][1].phonetics \o lineData[i + 2][2].phonetics)
         IN IF mosaicMatch.ok /\ 10 * mosaicMatch.similarity.num > 6 * mosaicMatch.similarity.den
            THEN << [type |-> "phrase-to-phrase", line1 |-> i, line2 |-> i + 1,
                     first |-> lineData[i + 1][1].word \o " " \o lineData[i + 1][2].word,
                     second |-> lineData[i + 2][1].word \o " " \o lineData[i + 2][2].word,
                     similarity |-> mosaicMatch.similarity] >>
            ELSE <<>>
    ELSE <<>>

\* text.split('\n'): a long text is split by halves, the piece that ends
\* the first half and the piece that begins the second being one line
RECURSIVE splitLines(_)
splitLines(txt) ==
    IF Len(txt) <= 64 THEN split(txt, NL)
    ELSE LET left == splitLines(SubSeq(txt, 1, Len(txt) \div 2))
             right == splitLines(SubSeq(txt, Len(txt) \div 2 + 1, Len(txt)))
         IN Front(left) \o <<Last(left) \o Head(right)>> \o Tail(right)

detectMosaicRhymes(txt) ==
    LET lines == firstLines(splitLines(txt))
        lineData == [k \in 1..Len(lines) |-> lineDataOf(lines[k])]
        mosaicRhymes == flatten([i \in 1..Len(lineData) |->
                            singleToPhrase(lineData, i - 1) \o phraseToPhrase(lineData, i - 1)])
    IN SubSeq(mosaicRhymes, 1, Min(Len(mosaicRhymes), MAX_MOSAIC_RESULTS))

MaxShortLines == 3

\* lines: two phrases whose words have a w, a long word before a phrase, a
\* line without a w, an empty line
MosaicLines == {"wow wow", "window Wow www", "cat sat", ""}

RECURSIVE ShortTextsOf(_)
ShortTextsOf(k) ==
    IF k = 1 THEN MosaicLines
    ELSE {t \o NL \o l : t \in ShortTextsOf(k - 1), l \in MosaicLines}

\* long texts: count lines, the last `closing` of them one line, the others
\* another
LongCounts == {21, 22, 100, 101}

RECURSIVE repeatLine(_, _)
repeatLine(line, n) == IF n = 1 THEN line ELSE line \o NL \o repeatLine(line, n - 1)

LongTexts ==
    {IF closing = 0 THEN repeatLine(l1, count)
     ELSE repeatLine(l1, count - closing) \o NL \o repeatLine(l2, closing) :
        count \in LongCounts, closing \in 0..3, l1 \in MosaicLines, l2 \in MosaicLines}

MosaicTexts == UNION {ShortTextsOf(k) : k \in 1..MaxShortLines} \cup LongTexts

InitMosaic ==
    /\ text \in MosaicTexts
    /\ call = [op |-> "detectMosaicRhymes"]
    /\ ret = Idle
    /\ pc = "call"
    /\ settings = DefaultSettings
    /\ words = <<>>
    /\ spans = <<>>
    /\ groups = <<>>
    /\ assonanceGroups = <<>>
    /\ wordToGroup = <<>>
    /\ internalRhymes = NoInternal
    /\ metrics = NoMetrics
    /\ outcome = "running"
    /\ hiphop = Idle

\* lines 489-582
CallDetectMosaicRhymes ==
    /\ pc = "call"
    /\ call.op = "detectMosaicRhymes"
    /\ ret' = [op |-> "detectMosaicRhymes", mosaicRhymes |-> detectMosaicRhymes(text)]
    /\ outcome' = "returned"
    /\ pc' = "done"
    /\ UNCHANGED <<text, settings, words, spans, groups, assonanceGroups,
                   wordToGroup, internalRhymes, metrics, call, hiphop>>

NextMosaic == CallDetectMosaicRhymes

SpecMosaic == InitMosaic /\ [][NextMosaic]_vars

Searched == pc = "done" /\ call.op = "detectMosaicRhymes"

\* the number of lines of the text
lineCount == Cardinality({i \in 1..Len(text) : SubSeq(text, i, i) = NL}) + 1

\* C29: detectMosaicRhymes returns at most 20 entries, every entry refers
\* to lines among the first 100 lines of the text, a single-to-phrase entry
\* has 1 <= |line1 - line2| <= 3 and a phrase-to-phrase entry has
\* line2 = line1 + 1
C29_MosaicBounds ==
    Searched =>
        /\ Len(ret.mosaicRhymes) <= 20
        /\ \A k \in 1..Len(ret.mosaicRhymes) :
              LET e == ret.mosaicRhymes[k]
              IN /\ e.line1 \in 0..99 /\ e.line2 \in 0..99
                 /\ e.line1 < lineCount /\ e.line2 < lineCount
                 /\ e.type = "single-to-phrase" =>
                       /\ e.line1 # e.line2
                       /\ e.line1 - e.line2 <= 3 /\ e.line2 - e.line1 <= 3
                 /\ e.type = "phrase-to-phrase" => e.line2 = e.line1 + 1

\* a text of more than 100 lines whose matches are cut at 20
C29_Witness ==
    /\ Searched
    /\ lineCount > 100
    /\ Len(ret.mosaicRhymes) = 20
    /\ ret.mosaicRhymes[20].type = "phrase-to-phrase"
    /\ ret.mosaicRhymes[20].line2 = 20

(* analyze from its words array on, the stressed syllable being any      *)
(* syllable of the word: syllabify sets the index to the syllable of a   *)
(* vowel it finds with stress digit 1, and to the last syllable when it  *)
(* finds none                                                            *)

MaxTailWords == 3

TailPool ==
    { [text |-> "nation",  phones |-> <<"N", "EY", "SH", "AH", "N">>],
      [text |-> "elation", phones |-> <<"IH", "L", "EY", "SH", "AH", "N">>],
      [text |-> "east",    phones |-> <<"IY", "S", "T">>] }

\* the pool words with each syllable index as stress
StressedPool ==
    UNION {{[w |-> entry, stress |-> s] : s \in 0..(Len(syllabify(entry.phones).syllables) - 1)} :
              entry \in TailPool}

stressedWord(choice, lineIndex) ==
    [poolWord(choice.w, lineIndex) EXCEPT !.stress = choice.stress]

InitTails ==
    /\ \E n \in 1..MaxTailWords :
         \E chosen \in [1..n -> StressedPool], breaks \in [1..n -> BOOLEAN] :
            /\ ~breaks[1]
            /\ words = [k \in 1..n |-> stressedWord(chosen[k], lineOf(breaks, k))]
    /\ text = ""
    /\ settings = DefaultSettings
    /\ pc = "spans"
    /\ spans = <<>>
    /\ groups = <<>>
    /\ assonanceGroups = <<>>
    /\ wordToGroup = <<>>
    /\ internalRhymes = NoInternal
    /\ metrics = NoMetrics
    /\ outcome = "running"
    /\ call = Idle
    /\ ret = Idle
    /\ hiphop = Idle

SpecTails == InitTails /\ [][NextWords]_vars

\* a quotient [num, den] lies in [0, 1]
inUnitInterval(q) == q.den > 0 /\ 0 <= q.num /\ q.num <= q.den

\* C30: 0 <= rhymingSyllables <= totalSyllables and 0 <= multi-syllable
\* count <= rhymingSyllables, so density and multiRatio are in [0, 1]; the
\* tail of every span is at least 1 and at most the syllable count of its
\* word
C30_MetricRanges ==
    /\ \A k \in 1..Len(spans) :
          /\ spans[k].tail >= 1
          /\ spans[k].tail <= Len(words[spans[k].wordIndex + 1].syllables)
    /\ Returned =>
          /\ 0 <= metrics.rhymingSyllables
          /\ metrics.rhymingSyllables <= metrics.totalSyllables
          /\ 0 <= metrics.multiSyllables
          /\ metrics.multiSyllables <= metrics.rhymingSyllables
          /\ inUnitInterval(metrics.density)
          /\ inUnitInterval(metrics.multiRatio)

\* tails of two and of three syllables, a multi-syllable count above 0 and
\* below the rhyming syllables, and these below the total
C30_Witness ==
    /\ Returned
    /\ \E k \in 1..Len(spans) : spans[k].tail = 2
    /\ \E k \in 1..Len(spans) : spans[k].tail = 3
    /\ metrics.multiSyllables > 0
    /\ metrics.multiSyllables < metrics.rhymingSyllables
    /\ metrics.rhymingSyllables < metrics.totalSyllables

====
